---- MODULE Spec2Model ----
(***************************************************************************)
(* Model of the KAA event scraper (scripts/fetchEvents.js): the sequential *)
(* list-page loop of collectEvents, the cache load, and the merge, target  *)
(* selection and bounded worker pool of enrichWithDetails, driven by       *)
(* main.                                                                   *)
(*                                                                         *)
(* A JavaScript object is a function from its own property names to        *)
(* values, so a property that is absent is a name outside DOMAIN.  One     *)
(* action is one turn of the event loop: everything the code runs between  *)
(* two awaits that wait on the network, a timer or the disk.               *)
(*                                                                         *)
(* Environment: the list and detail servers answer or fail at will; the    *)
(* data file is not touched by anybody else during a run and mkdir and     *)
(* writeFile succeed.                                                      *)
(***************************************************************************)
EXTENDS Integers, Sequences, FiniteSets, TLC

\* ------------------------------------------------------------------ bounds
\* Rows one list page may carry.
MaxRows == 1

\* ------------------------------------------------------- program constants
PAGE_COUNT == 5
DefaultConcurrency == 4

\* -------------------------------------------------------------- JS values
Null == "null"
Undef == "undefined"

\* Boolean(v) for the string-or-null values of the model.
Truthy(v) == v \notin {Null, Undef, ""}

\* obj[k], undefined when obj has no own property k.
Get(obj, k) == IF k \in DOMAIN obj THEN obj[k] ELSE Undef

Max(a, b) == IF a >= b THEN a ELSE b
Min(a, b) == IF a <= b THEN a ELSE b

\* ------------------------------------------------------- input alphabets
\* One row as parseEvents pushes it: every listed property is supplied (null
\* when the row has none); remarks and downloads are never supplied.
\* location stands for the row-only fields location, dates, timeInfo, note,
\* noteUrl, extras and category.
Row(title, detailUrl, location, register, registerUrl) ==
    [title |-> title, detailUrl |-> detailUrl, location |-> location,
     register |-> register, registerUrl |-> registerUrl]

RowSet ==
    { Row("A", "u1", "hall", Null, Null),
      Row("B", "u2", "hall", Null, Null),
      Row("C", "u3", "hall", "apply", "a3"),
      Row("A", Null, "hall", Null, Null),
      Row("A", Null, "park", Null, Null),
      Row("", Null, "hall", Null, Null) }

\* What parseEvents returns for one page: rows in table order.
PageSet == UNION { [1..n -> RowSet] : n \in 0..MaxRows }

\* Events of an earlier payload (data/events.json).
CachedComplete(title, detailUrl) ==
    [title |-> title, detailUrl |-> detailUrl, location |-> "old",
     register |-> "r-old", registerUrl |-> "ru-old", remarks |-> "m-old",
     downloads |-> << [label |-> "f1", url |-> "d1"], [label |-> "f2", url |-> "d2"] >>]

CachedRemarksOnly(title, detailUrl) ==
    [title |-> title, detailUrl |-> detailUrl, location |-> "old",
     register |-> Null, registerUrl |-> Null, remarks |-> "m-old"]

CachedNoRemarks(title, detailUrl) ==
    [title |-> title, detailUrl |-> detailUrl, location |-> "old",
     register |-> "r-old", registerUrl |-> Null,
     downloads |-> << [label |-> "f1", url |-> "d1"] >>]

\* The data file: readable JSON with an events array, or missing/unparsable.
FileOf(evs) == [ok |-> TRUE, events |-> evs]
NoFile == [ok |-> FALSE, events |-> << >>]

FileSet ==
    { NoFile,
      FileOf(<< CachedRemarksOnly("A", "u1"), CachedComplete("A", "u1"),
                CachedComplete("A", Null), CachedRemarksOnly("B", "u2"),
                CachedNoRemarks("C", "u3") >>) }

\* What parseDetail returns for one detail page.
DetailSet ==
    { [fields |-> << [key |-> "note", value |-> "n-new"],
                     [key |-> "remark", value |-> "m-new"] >>,
       downloads |-> << [label |-> "f9", url |-> "d9"] >>,
       registerInfo |-> [label |-> "r-new", url |-> "ru-new"]],
      [fields |-> << [key |-> "register", value |-> "r-text"],
                     [key |-> "remark", value |-> Null] >>,
       downloads |-> << >>,
       registerInfo |-> [label |-> "r-text", url |-> Null]] }

\* Values of the DETAIL_CONCURRENCY and DETAIL_DELAY_MS environment variables
\* after Number(); 0 also stands for unset and for NaN (all falsy under ||).
EnvConcurrencySet == {-1, 0, 2}
EnvDelaySet == {0, 5}

VARIABLES
    envConcurrency,  \* Number(process.env.DETAIL_CONCURRENCY)
    envDelay,        \* Number(process.env.DETAIL_DELAY_MS)
    file,            \* data/events.json on disk
    pc,              \* where main is: "list", "enrich", "write", "done"
    page,            \* collectEvents: page whose fetch is in flight
    seen,            \* collectEvents: keys seen
    aggregated,      \* collectEvents: events kept
    existingMap,     \* the cache, identity key -> event
    merged,          \* enrichWithDetails: the result array
    targets,         \* enrichWithDetails: indices (into merged) to fetch
    next,            \* enrichWithDetails: the shared cursor
    wpc,             \* per worker created: "fetching", "sleeping", "done"
    current,         \* per worker: the target position it claimed
    exitCode,        \* process.exitCode (0 when never set)
    \* What the run did, kept for the properties only:
    firstSeen,       \* first row met for each key, in page-then-row order
    duplicates,      \* rows of the page in hand met with a key already met
    freshEvents,     \* the events enrichWithDetails was called with
    mergeResult,     \* merged as the merge step left it
    detailFetches,   \* per target position: fetchDetailSafe calls issued
    warned,          \* target positions whose failure console.warn logged
    writes,          \* writeFile calls on the data file
    reads,           \* readFileSync calls on the data file
    storedComplete,  \* keys an earlier run wrote complete detail data for
    unkeyed          \* rows of the page in hand without an identity key

scraperVars == << envConcurrency, envDelay, file, pc, page, seen, aggregated,
                  existingMap, merged, targets, next, wpc, current, exitCode,
                  firstSeen, duplicates, freshEvents, mergeResult, detailFetches,
                  warned, writes, reads,
                    storedComplete, unkeyed >>

\* The browser side (app.js).  The scraper and the page never run together:
\* each specification below moves one side and keeps the other where it is.
VARIABLES
    title,           \* classifiers: the title handed to both
    byScraper,       \* what detectCategory returned for it
    byFrontend,      \* what detectCategoryFromTitle returned for it
    rawEvent,        \* enrichEvent: the event of the payload it is called on
    now,             \* Date.now()
    enrichCalls,     \* the calls made: Date.now() then, and what was returned
    state,           \* the page's state object: events, filtered, filters
    dom,             \* the document: checkboxes, search box, status line, list
    loading          \* loadEvents: "pending", "enriched", "loaded", "failed"

classifyVars == << title, byScraper, byFrontend >>
enrichVars == << rawEvent, now, enrichCalls >>
pageVars == << state, dom, loading >>
frontVars == << classifyVars, enrichVars, pageVars >>
vars == << scraperVars, frontVars >>

\* The identity key of a row: detailUrl if present, else title.
IdentityKey(row) == IF Truthy(row.detailUrl) THEN row.detailUrl ELSE row.title

\* The rows met so far that have an identity key, reduced to the first row of
\* each key.
RECURSIVE FirstRows(_, _, _)
FirstRows(first, rows, i) ==
    IF i > Len(rows) THEN first
    ELSE FirstRows(
             IF \/ ~Truthy(IdentityKey(rows[i]))
                \/ \E j \in 1..Len(first) :
                       IdentityKey(first[j]) = IdentityKey(rows[i])
             THEN first
             ELSE Append(first, rows[i]),
             rows, i + 1)

DETAIL_CONCURRENCY ==
    Max(1, IF envConcurrency # 0 THEN envConcurrency ELSE DefaultConcurrency)

DETAIL_DELAY_MS == Max(0, IF envDelay # 0 THEN envDelay ELSE 0)

\* Labels of detail rows that extractRemarks accepts.
REMARK_FIELD_NAMES == {"remark", "caution"}

\* ------------------------------------------------------- pure functions
\* event.detailUrl || event.title
KeyOf(event) ==
    IF Truthy(Get(event, "detailUrl")) THEN Get(event, "detailUrl")
    ELSE Get(event, "title")

\* obj.k = v
SetProp(obj, k, v) == (k :> v) @@ obj

\* Spread with the operands the wrong way round: the cached value wins.
SpreadCachedWins(cached, evt) == cached @@ evt

\* { ...cached, ...evt }: the own properties of both, evt's value where both
\* have the property.
Spread(cached, evt) == evt @@ cached

\* The forEach without seen.add: a key is never remembered.
RECURSIVE AddRowsNoSeenAdd(_, _, _)
AddRowsNoSeenAdd(st, rows, i) ==
    IF i > Len(rows) THEN st
    ELSE LET key == KeyOf(rows[i])
         IN  AddRowsNoSeenAdd(IF Truthy(key) /\ key \notin st.seen
                              THEN [seen |-> st.seen,
                                    aggregated |-> Append(st.aggregated, rows[i])]
                              ELSE st,
                              rows, i + 1)

\* The forEach without the test of the key being non-empty.
RECURSIVE AddRowsAnyKey(_, _, _)
AddRowsAnyKey(st, rows, i) ==
    IF i > Len(rows) THEN st
    ELSE LET key == KeyOf(rows[i])
         IN  AddRowsAnyKey(IF key \notin st.seen
                           THEN [seen |-> st.seen \cup {key},
                                 aggregated |-> Append(st.aggregated, rows[i])]
                           ELSE st,
                           rows, i + 1)

\* The forEach of collectEvents over one page's rows: st = [seen, aggregated].
RECURSIVE AddRows(_, _, _)
AddRows(st, rows, i) ==
    IF i > Len(rows) THEN st
    ELSE LET key == KeyOf(rows[i])
         IN  AddRows(IF Truthy(key) /\ key \notin st.seen
                     THEN [seen |-> st.seen \cup {key},
                           aggregated |-> Append(st.aggregated, rows[i])]
                     ELSE st,
                     rows, i + 1)

\* Map.get / Map.has on a map kept as a function from keys to events.
MapHas(map, key) == key \in DOMAIN map
MapSet(map, key, event) == (key :> event) @@ map

RECURSIVE SetAll(_, _, _)
SetAll(map, evs, i) ==
    IF i > Len(evs) THEN map
    ELSE LET key == KeyOf(evs[i])
         IN  SetAll(IF Truthy(key) THEN MapSet(map, key, evs[i]) ELSE map,
                    evs, i + 1)

EmptyMap == [key \in {} |-> key]

LoadExistingMap(f) == IF f.ok THEN SetAll(EmptyMap, f.events, 1) ELSE EmptyMap

\* A merge that keeps only the events that can be enriched.
MergeAllWithUrl(evs, map) ==
    LET kept == SelectSeq(evs, LAMBDA e : Truthy(Get(e, "detailUrl")))
    IN  [i \in 1..Len(kept) |->
            IF MapHas(map, KeyOf(kept[i]))
            THEN Spread(map[KeyOf(kept[i])], kept[i]) ELSE kept[i]]

\* The map callback of the merge step.
MergeOne(evt, map) ==
    LET key == KeyOf(evt)
    IN  IF Truthy(key) /\ MapHas(map, key) THEN Spread(map[key], evt) ELSE evt

MergeAll(evs, map) == [i \in 1..Len(evs) |-> MergeOne(evs[i], map)]

HasDownloads(existing) ==
    "downloads" \in DOMAIN existing /\ Len(existing.downloads) > 0
HasRemarks(existing) == Truthy(Get(existing, "remarks"))
HasRegister(existing) ==
    Truthy(Get(existing, "registerUrl")) \/ Truthy(Get(existing, "register"))

\* shouldFetchDetail taking any one kind of detail data for complete.
ShouldFetchDetailAny(map, key) ==
    IF ~MapHas(map, key) THEN TRUE
    ELSE ~(HasDownloads(map[key]) \/ HasRemarks(map[key]) \/ HasRegister(map[key]))

\* shouldFetchDetail whose first test is inverted: an event without cached
\* record is never fetched.
ShouldFetchDetailOnlyCached(map, key) ==
    IF ~MapHas(map, key) THEN FALSE
    ELSE ~(HasDownloads(map[key]) /\ HasRemarks(map[key]) /\ HasRegister(map[key]))

\* shouldFetchDetail(existingMap.get(key))
ShouldFetchDetail(map, key) ==
    IF ~MapHas(map, key) THEN TRUE
    ELSE ~(HasDownloads(map[key]) /\ HasRemarks(map[key]) /\ HasRegister(map[key]))

IsTarget(event, map) ==
    Truthy(Get(event, "detailUrl")) /\ ShouldFetchDetail(map, KeyOf(event))

\* The filter of the selection step: indices of merged, in order.
RECURSIVE SelectTargets(_, _, _)
SelectTargets(evs, map, i) ==
    IF i > Len(evs) THEN << >>
    ELSE (IF IsTarget(evs[i], map) THEN << i >> ELSE << >>)
         \o SelectTargets(evs, map, i + 1)

\* extractRemarks: the value of the first entry with a truthy value whose
\* label is a remark label, else null.
RECURSIVE ExtractRemarks(_, _)
ExtractRemarks(fields, i) ==
    IF i > Len(fields) THEN Null
    ELSE IF Truthy(fields[i].value) /\ fields[i].key \in REMARK_FIELD_NAMES
         THEN fields[i].value
         ELSE ExtractRemarks(fields, i + 1)

ValidDownloads(downloads) == SelectSeq(downloads, LAMBDA d : Truthy(d.url))

\* remarks assigned whatever extractRemarks returned.
ApplyRemarksAlways(event, detail) ==
    SetProp(event, "remarks", ExtractRemarks(detail.fields, 1))

\* The remarks stored under the list row's note.
ApplyRemarksToNote(event, detail) ==
    LET remarks == ExtractRemarks(detail.fields, 1)
    IN  IF Truthy(remarks) THEN SetProp(event, "note", remarks) ELSE event

\* The body of the try block after the await, on merged[index].
ApplyRemarks(event, detail) ==
    LET remarks == ExtractRemarks(detail.fields, 1)
    IN  IF Truthy(remarks) THEN SetProp(event, "remarks", remarks) ELSE event

ApplyRegister(event, detail) ==
    LET e1 == IF Truthy(Get(detail.registerInfo, "label"))
              THEN SetProp(event, "register", detail.registerInfo.label)
              ELSE event
    IN  IF Truthy(Get(detail.registerInfo, "url"))
        THEN SetProp(e1, "registerUrl", detail.registerInfo.url)
        ELSE e1

\* downloads assigned whatever the filter left, an empty list included.
ApplyDownloadsAlways(event, detail) ==
    SetProp(event, "downloads", ValidDownloads(detail.downloads))

ApplyDownloads(event, detail) ==
    LET validDownloads == ValidDownloads(detail.downloads)
    IN  IF Len(validDownloads) > 0
        THEN SetProp(event, "downloads", validDownloads)
        ELSE event

ApplyDetail(event, detail) ==
    ApplyDownloads(ApplyRegister(ApplyRemarks(event, detail), detail), detail)

\* Rows of one page whose key was met before them, in an earlier page or
\* earlier in this one.
RECURSIVE Duplicates(_, _, _)
Duplicates(met, rows, i) ==
    IF i > Len(rows) THEN 0
    ELSE (IF Truthy(IdentityKey(rows[i])) /\ IdentityKey(rows[i]) \in met
          THEN 1 ELSE 0)
         + Duplicates(met \cup {IdentityKey(rows[i])}, rows, i + 1)

\* Rows of one page with neither a detailUrl nor a non-empty title.
Unkeyed(rows) ==
    Cardinality({ i \in DOMAIN rows : ~Truthy(IdentityKey(rows[i])) })

\* ------------------------------------------------------- the worker pool
\* A worker loop that leaves one target early (break on current + 1).
ClaimNextOffByOne(pool, w, n) ==
    LET cur == pool.next
    IN  IF cur + 1 >= n
        THEN [pool EXCEPT !.next = cur + 1,
                          !.current[w] = cur,
                          !.wpc[w] = "done"]
        ELSE [pool EXCEPT !.next = cur + 1,
                          !.current[w] = cur,
                          !.wpc[w] = "fetching",
                          !.detailFetches[cur + 1] = @ + 1]

\* pool = [next, wpc, current, detailFetches].  One pass of a worker from the
\* top of its loop to its next await (or its break): claim the cursor, and
\* either leave the loop or call fetchDetailSafe for the claimed target.
ClaimNext(pool, w, n) ==
    LET cur == pool.next
    IN  IF cur >= n
        THEN [pool EXCEPT !.next = cur + 1,
                          !.current[w] = cur,
                          !.wpc[w] = "done"]
        ELSE [pool EXCEPT !.next = cur + 1,
                          !.current[w] = cur,
                          !.wpc[w] = "fetching",
                          !.detailFetches[cur + 1] = @ + 1]

\* After the try/catch: sleep when a delay is configured, else loop at once.
AfterFetch(pool, w, n) ==
    IF DETAIL_DELAY_MS # 0
    THEN [pool EXCEPT !.wpc[w] = "sleeping"]
    ELSE ClaimNext(pool, w, n)

\* One worker per target, whatever the limit.
RECURSIVE SpawnPerTarget(_, _, _, _)
SpawnPerTarget(pool, w, length, n) ==
    IF w > n THEN pool
    ELSE SpawnPerTarget(
             ClaimNext([pool EXCEPT !.wpc = Append(@, "new"),
                                    !.current = Append(@, 0)], w, n),
             w + 1, length, n)

\* Array.from({ length }, () => worker()): the workers are called one after
\* the other, each running to its first await.
RECURSIVE SpawnWorkers(_, _, _, _)
SpawnWorkers(pool, w, length, n) ==
    IF w > length THEN pool
    ELSE SpawnWorkers(
             ClaimNext([pool EXCEPT !.wpc = Append(@, "new"),
                                    !.current = Append(@, 0)], w, n),
             w + 1, length, n)

\* Promise.race in place of Promise.all: the first worker to end resolves it.
AnyDone(pool) == \E w \in 1..Len(pool.wpc) : pool.wpc[w] = "done"

AllDone(pool) == \A w \in 1..Len(pool.wpc) : pool.wpc[w] = "done"

Pool == [next |-> next, wpc |-> wpc, current |-> current,
         detailFetches |-> detailFetches]

\* Promise.all(workers) resolves with the last worker; enrichWithDetails and
\* collectEvents return and main calls writePayload.
SetPool(pool) ==
    /\ next' = pool.next
    /\ wpc' = pool.wpc
    /\ current' = pool.current
    /\ detailFetches' = pool.detailFetches
    /\ pc' = IF AllDone(pool) THEN "write" ELSE "enrich"

\* merged[index] is the very object events[index] when the merge step found
\* no cached record (MergeOne returns evt itself).
SameObject(index) ==
    LET key == KeyOf(merged[index])
    IN  ~(Truthy(key) /\ MapHas(existingMap, key))

\* ---------------------------------------------------------------- actions
\* The page is not open.
ClassifyIdle == title = << >> /\ byScraper = Undef /\ byFrontend = Undef
EnrichIdle == rawEvent = << >> /\ now = 0 /\ enrichCalls = << >>
PageIdle == state = << >> /\ dom = << >> /\ loading = "closed"
FrontIdle == ClassifyIdle /\ EnrichIdle /\ PageIdle

Init ==
    /\ envConcurrency \in EnvConcurrencySet
    /\ envDelay \in EnvDelaySet
    /\ file \in FileSet
    /\ pc = "list"
    /\ page = 1
    /\ seen = {}
    /\ aggregated = << >>
    /\ existingMap = EmptyMap
    /\ merged = << >>
    /\ targets = << >>
    /\ next = 0
    /\ wpc = << >>
    /\ current = << >>
    /\ exitCode = 0
    /\ firstSeen = << >>
    /\ duplicates = 0
    /\ freshEvents = << >>
    /\ mergeResult = << >>
    /\ detailFetches = << >>
    /\ warned = {}
    /\ writes = 0
    /\ reads = 0
    /\ storedComplete = {}
    /\ unkeyed = 0
    /\ FrontIdle

\* A list page before the last answers: its rows are aggregated and the next
\* page is requested.
ListPageOk(rows) ==
    /\ pc = "list"
    /\ page < PAGE_COUNT
    /\ LET st == AddRows([seen |-> seen, aggregated |-> aggregated], rows, 1)
       IN  /\ seen' = st.seen
           /\ aggregated' = st.aggregated
    /\ page' = page + 1
    /\ duplicates' =
          Duplicates({ IdentityKey(firstSeen[j]) : j \in DOMAIN firstSeen }, rows, 1)
    /\ firstSeen' = FirstRows(firstSeen, rows, 1)
    /\ unkeyed' = Unkeyed(rows)
    /\ UNCHANGED << envConcurrency, envDelay, file, pc, existingMap, merged,
                    targets, next, wpc, current, exitCode, freshEvents,
                    mergeResult, detailFetches, warned, writes, reads,
                    storedComplete >>
    /\ UNCHANGED frontVars

\* The last list page answers: its rows are aggregated, the cache is read,
\* and enrichWithDetails runs up to its first await: merge, selection and the
\* creation of the workers (or the early return when nothing is to fetch).
LastPageOk(rows) ==
    /\ pc = "list"
    /\ page = PAGE_COUNT
    /\ LET st == AddRows([seen |-> seen, aggregated |-> aggregated], rows, 1)
           map == LoadExistingMap(file)
           result == MergeAll(st.aggregated, map)
           selected == SelectTargets(result, map, 1)
           n == Len(selected)
       IN  /\ seen' = st.seen
           /\ aggregated' = st.aggregated
           /\ existingMap' = map
           /\ freshEvents' = st.aggregated
           /\ merged' = result
           /\ mergeResult' = result
           /\ targets' = selected
           /\ IF n = 0
              THEN /\ pc' = "write"
                   /\ UNCHANGED << next, wpc, current, detailFetches >>
              ELSE SetPool(SpawnWorkers(
                       [next |-> 0, wpc |-> << >>, current |-> << >>,
                        detailFetches |-> [i \in 1..n |-> 0]],
                       1, Min(DETAIL_CONCURRENCY, n), n))
    /\ page' = page + 1
    /\ duplicates' = 0
    /\ firstSeen' = FirstRows(firstSeen, rows, 1)
    /\ UNCHANGED << envConcurrency, envDelay, file, exitCode, warned, writes >>
    /\ reads' = reads + 1
    /\ UNCHANGED storedComplete
    /\ unkeyed' = 0
    /\ UNCHANGED frontVars

\* fetchPage of a list page throws: collectEvents rejects and main's catch
\* sets the exit code.
ListPageFail ==
    /\ pc = "list"
    /\ pc' = "done"
    /\ exitCode' = 1
    /\ UNCHANGED << envConcurrency, envDelay, file, page, seen, aggregated,
                    existingMap, merged, targets, next, wpc, current,
                    firstSeen, duplicates, freshEvents, mergeResult, detailFetches,
                    warned, writes, reads,
                    storedComplete, unkeyed >>
    /\ UNCHANGED frontVars

\* A worker that looks its target up again after the await, by the shared
\* cursor instead of the position it claimed.
DetailOkByCursor(w, detail) ==
    /\ pc = "enrich"
    /\ wpc[w] = "fetching"
    /\ LET index == targets[Min(next, Len(targets))]
           event == ApplyDetail(merged[index], detail)
       IN  /\ merged' = [merged EXCEPT ![index] = event]
           /\ aggregated' = IF SameObject(index)
                            THEN [aggregated EXCEPT ![index] = event]
                            ELSE aggregated
    /\ SetPool(AfterFetch(Pool, w, Len(targets)))
    /\ UNCHANGED << envConcurrency, envDelay, file, page, seen, existingMap,
                    targets, exitCode, firstSeen, duplicates, freshEvents, mergeResult,
                    warned, writes, reads,
                    storedComplete, unkeyed >>
    /\ UNCHANGED frontVars

\* The detail page of worker w's target answers: the result is applied to
\* merged[index], then the worker sleeps or loops.
DetailOk(w, detail) ==
    /\ pc = "enrich"
    /\ wpc[w] = "fetching"
    /\ LET index == targets[current[w] + 1]
           event == ApplyDetail(merged[index], detail)
       IN  /\ merged' = [merged EXCEPT ![index] = event]
           /\ aggregated' = IF SameObject(index)
                            THEN [aggregated EXCEPT ![index] = event]
                            ELSE aggregated
    /\ SetPool(AfterFetch(Pool, w, Len(targets)))
    /\ UNCHANGED << envConcurrency, envDelay, file, page, seen, existingMap,
                    targets, exitCode, firstSeen, duplicates, freshEvents, mergeResult,
                    warned, writes, reads,
                    storedComplete, unkeyed >>
    /\ UNCHANGED frontVars

\* A worker whose try/catch is around its whole loop: the failure is logged
\* and the worker ends.
DetailFailStops(w) ==
    /\ pc = "enrich"
    /\ wpc[w] = "fetching"
    /\ warned' = warned \cup {current[w]}
    /\ SetPool([Pool EXCEPT !.wpc[w] = "done"])
    /\ UNCHANGED << envConcurrency, envDelay, file, page, seen, aggregated,
                    existingMap, merged, targets, exitCode, firstSeen, duplicates,
                    freshEvents, mergeResult, writes, reads,
                    storedComplete, unkeyed >>
    /\ UNCHANGED frontVars

\* A worker without the try/catch: the rejection reaches main's catch.
DetailFailAborts(w) ==
    /\ pc = "enrich"
    /\ wpc[w] = "fetching"
    /\ pc' = "done"
    /\ exitCode' = 1
    /\ UNCHANGED << envConcurrency, envDelay, file, page, seen,
                    aggregated, existingMap, merged, targets, next, wpc,
                    current, firstSeen, duplicates, freshEvents, mergeResult,
                    detailFetches, warned, writes, reads,
                    storedComplete, unkeyed >>
    /\ UNCHANGED frontVars

\* fetchDetailSafe throws for worker w's target: the catch logs a warning,
\* then the worker sleeps or loops.
DetailFail(w) ==
    /\ pc = "enrich"
    /\ wpc[w] = "fetching"
    /\ warned' = warned \cup {current[w]}
    /\ SetPool(AfterFetch(Pool, w, Len(targets)))
    /\ UNCHANGED << envConcurrency, envDelay, file, page, seen, aggregated,
                    existingMap, merged, targets, exitCode, firstSeen, duplicates,
                    freshEvents, mergeResult, writes, reads,
                    storedComplete, unkeyed >>
    /\ UNCHANGED frontVars

\* The sleep of worker w ends: it loops.
SleepDone(w) ==
    /\ pc = "enrich"
    /\ wpc[w] = "sleeping"
    /\ SetPool(ClaimNext(Pool, w, Len(targets)))
    /\ UNCHANGED << envConcurrency, envDelay, file, page, seen, aggregated,
                    existingMap, merged, targets, exitCode, firstSeen, duplicates,
                    freshEvents, mergeResult, warned, writes, reads,
                    storedComplete, unkeyed >>
    /\ UNCHANGED frontVars

\* A main that does not await the workers: the file is written while detail
\* fetches are still in flight.
WritePayloadUnawaited ==
    /\ pc \in {"enrich", "write"}
    /\ file' = FileOf(merged)
    /\ writes' = writes + 1
    /\ pc' = "done"
    /\ UNCHANGED << envConcurrency, envDelay, page, seen, aggregated,
                    existingMap, merged, targets, next, wpc, current,
                    exitCode, firstSeen, duplicates, freshEvents, mergeResult,
                    detailFetches, warned, reads,
                    storedComplete, unkeyed >>
    /\ UNCHANGED frontVars

\* writePayload completes: the file holds the events main was given.
WritePayload ==
    /\ pc = "write"
    /\ file' = FileOf(merged)
    /\ writes' = writes + 1
    /\ pc' = "done"
    /\ UNCHANGED << envConcurrency, envDelay, page, seen, aggregated,
                    existingMap, merged, targets, next, wpc, current,
                    exitCode, firstSeen, duplicates, freshEvents, mergeResult,
                    detailFetches, warned, reads,
                    storedComplete, unkeyed >>
    /\ UNCHANGED frontVars

Next ==
    \/ \E rows \in PageSet : ListPageOk(rows)
    \/ \E rows \in PageSet : LastPageOk(rows)
    \/ ListPageFail
    \/ \E w \in DOMAIN wpc, detail \in DetailSet : DetailOk(w, detail)
    \/ \E w \in DOMAIN wpc : DetailFail(w)
    \/ \E w \in DOMAIN wpc : SleepDone(w)
    \/ WritePayload

Spec == Init /\ [][Next]_vars

\* ------------------------------------------------------------ properties
\* enrichWithDetails has returned (main is past collectEvents).
Enriched == page > PAGE_COUNT /\ pc \in {"write", "done"}

\* The target position p (0-based, as the cursor counts) had a fetch issued.
Attempted(p) == detailFetches[p + 1] > 0

\* C1: with N targets and any limit >= 1, under every interleaving exactly N
\* detail fetches are issued: no target position is fetched twice, no two
\* workers hold the same cursor value, and when enrichWithDetails has
\* returned every position has been fetched exactly once.
Thm_C1_EachTargetOnce ==
    /\ Len(detailFetches) = Len(targets)
    /\ \A p \in DOMAIN detailFetches : detailFetches[p] <= 1
    /\ \A v, w \in DOMAIN wpc : v # w => current[v] # current[w]
    /\ Enriched => \A p \in DOMAIN detailFetches : detailFetches[p] = 1

Wit_C1_ThreeTargetsTwoWorkers ==
    /\ pc = "done"
    /\ Len(targets) = 3
    /\ Len(wpc) = 2
    /\ \A p \in DOMAIN detailFetches : detailFetches[p] = 1

\* C2: a target whose detail fetch threw keeps exactly its merge result, in
\* merged and in the written file; a worker ends only when the cursor has
\* passed the last target, so after a failure the remaining targets are still
\* fetched and every worker has ended when enrichWithDetails returns.
Thm_C2_FailureIsLocal ==
    /\ \A p \in warned : merged[targets[p + 1]] = mergeResult[targets[p + 1]]
    /\ \A w \in DOMAIN wpc : wpc[w] = "done" => current[w] >= Len(targets)
    /\ Enriched =>
          /\ \A w \in DOMAIN wpc : wpc[w] = "done"
          /\ \A p \in 0..(Len(targets) - 1) : Attempted(p)
    /\ writes = 1 =>
          \A p \in warned :
              file.events[targets[p + 1]] = mergeResult[targets[p + 1]]

Wit_C2_OneFailedOthersApplied ==
    /\ pc = "done"
    /\ writes = 1
    /\ Len(targets) >= 2
    /\ 0 \in warned
    /\ \E p \in 1..(Len(targets) - 1) :
           /\ p \notin warned
           /\ merged[targets[p + 1]] # mergeResult[targets[p + 1]]

\* C3: for a fresh event whose identity key is in the cache the merge result
\* has the properties of both records, the fresh value for every property the
\* fresh event supplies and the cached value for the others; a fresh event
\* with no cache entry is returned unchanged.
Thm_C3_MergeOverlay ==
    /\ Len(mergeResult) = Len(freshEvents)
    /\ \A i \in DOMAIN mergeResult :
          LET fresh == freshEvents[i]
              key == IdentityKey(fresh)
          IN  IF key \in DOMAIN existingMap
              THEN /\ DOMAIN mergeResult[i] = DOMAIN fresh \cup DOMAIN existingMap[key]
                   /\ \A k \in DOMAIN fresh : mergeResult[i][k] = fresh[k]
                   /\ \A k \in DOMAIN existingMap[key] \ DOMAIN fresh :
                          mergeResult[i][k] = existingMap[key][k]
              ELSE mergeResult[i] = fresh

Wit_C3_CachedDetailKept ==
    \E i \in DOMAIN mergeResult :
        /\ IdentityKey(freshEvents[i]) \in DOMAIN existingMap
        /\ "downloads" \notin DOMAIN freshEvents[i]
        /\ "downloads" \in DOMAIN mergeResult[i]
        /\ Len(mergeResult[i].downloads) = 2
        /\ mergeResult[i].remarks = "m-old"
        /\ mergeResult[i].location = "hall"
        /\ existingMap[IdentityKey(freshEvents[i])].location = "old"

\* Complete detail data: at least one download, remarks, and a register label
\* or url.
CompleteDetail(record) ==
    /\ "downloads" \in DOMAIN record
    /\ Len(record.downloads) >= 1
    /\ Truthy(Get(record, "remarks"))
    /\ Truthy(Get(record, "register")) \/ Truthy(Get(record, "registerUrl"))

\* The event at index i of the run is one the claim says must be fetched.
MustFetch(i) ==
    /\ Truthy(freshEvents[i].detailUrl)
    /\ \/ IdentityKey(freshEvents[i]) \notin DOMAIN existingMap
       \/ ~CompleteDetail(existingMap[IdentityKey(freshEvents[i])])

\* A detail fetch was issued for the event at index i.
Fetched(i) == \E p \in DOMAIN targets : targets[p] = i /\ detailFetches[p] > 0

\* C4: a detail fetch is issued for an event only if it has a detailUrl and
\* its cached record is absent or lacks complete detail data, and when
\* enrichWithDetails has returned every such event has been fetched.
Thm_C4_FetchIffIncomplete ==
    /\ \A i \in DOMAIN merged : Fetched(i) => MustFetch(i)
    /\ Enriched => \A i \in DOMAIN merged : MustFetch(i) => Fetched(i)

Wit_C4_FetchedSkippedAndNoUrl ==
    /\ pc = "done"
    /\ \E i, j, k \in DOMAIN merged :
           /\ Fetched(i)
           /\ Truthy(freshEvents[j].detailUrl) /\ ~Fetched(j)
           /\ ~Truthy(freshEvents[k].detailUrl) /\ ~Fetched(k)

\* C5: once the merge has run, merged has the length of the fresh sequence
\* and the event at each position has the identity key of the fresh event at
\* that position, and so has the written file.
Thm_C5_OrderPreserved ==
    /\ page > PAGE_COUNT =>
          /\ Len(merged) = Len(freshEvents)
          /\ \A i \in DOMAIN merged :
                 IdentityKey(merged[i]) = IdentityKey(freshEvents[i])
    /\ writes = 1 =>
          /\ Len(file.events) = Len(freshEvents)
          /\ \A i \in DOMAIN freshEvents :
                 IdentityKey(file.events[i]) = IdentityKey(freshEvents[i])

Wit_C5_MixedRun ==
    /\ writes = 1
    /\ Len(freshEvents) >= 3
    /\ warned # {}
    /\ \E i \in DOMAIN merged : merged[i] # mergeResult[i]
    /\ \E i \in DOMAIN merged : IdentityKey(freshEvents[i]) \in DOMAIN existingMap
    /\ \E i \in DOMAIN merged : ~Truthy(freshEvents[i].detailUrl)

\* The properties a detail page can set.
DetailProps == {"downloads", "remarks", "register", "registerUrl"}

\* The value of property k of obj as a sequence: empty when obj has no k.
Val(obj, k) == IF k \in DOMAIN obj THEN << obj[k] >> ELSE << >>

\* Property k of obj is missing: absent, null, empty text or an empty list.
MissingIn(obj, k) ==
    \/ k \notin DOMAIN obj
    \/ IF k = "downloads" THEN Len(obj[k]) = 0 ELSE ~Truthy(obj[k])

\* The cached record of the event at index i, if it has one.
HasCached(i) == IdentityKey(freshEvents[i]) \in DOMAIN existingMap
CachedOf(i) == existingMap[IdentityKey(freshEvents[i])]

\* The non-empty value a detail page produces for property k, as a set (empty
\* when the page produces none).
Produced(detail, k) ==
    CASE k = "remarks" ->
             { detail.fields[j].value : j \in
                 { j \in DOMAIN detail.fields :
                     /\ detail.fields[j].key \in REMARK_FIELD_NAMES
                     /\ Truthy(detail.fields[j].value)
                     /\ \A h \in 1..(j - 1) :
                            ~(/\ detail.fields[h].key \in REMARK_FIELD_NAMES
                              /\ Truthy(detail.fields[h].value)) } }
      [] k = "register" ->
             IF "label" \in DOMAIN detail.registerInfo
                /\ Truthy(detail.registerInfo.label)
             THEN { detail.registerInfo.label } ELSE {}
      [] k = "registerUrl" ->
             IF "url" \in DOMAIN detail.registerInfo
                /\ Truthy(detail.registerInfo.url)
             THEN { detail.registerInfo.url } ELSE {}
      [] k = "downloads" ->
             IF \E j \in DOMAIN detail.downloads : Truthy(detail.downloads[j].url)
             THEN { SelectSeq(detail.downloads, LAMBDA d : Truthy(d.url)) }
             ELSE {}

Thm_C7_FirstOccurrenceWins ==
    /\ \A i, j \in DOMAIN aggregated :
          i # j => IdentityKey(aggregated[i]) # IdentityKey(aggregated[j])
    /\ \A i \in DOMAIN aggregated : Truthy(IdentityKey(aggregated[i]))
    /\ pc = "list" => aggregated = firstSeen
    /\ page > PAGE_COUNT => freshEvents = firstSeen

Wit_C7_LaterDuplicateDropped ==
    /\ pc = "list"
    /\ page = PAGE_COUNT
    /\ duplicates >= 1
    /\ Len(aggregated) = 3
    /\ \E i \in DOMAIN aggregated : ~Truthy(aggregated[i].detailUrl)
    /\ \E i \in DOMAIN aggregated : Truthy(aggregated[i].detailUrl)

\* Detail fetches in flight.
InFlight == { w \in DOMAIN wpc : wpc[w] = "fetching" }

\* C8: the limit is at least 1, at most limit detail fetches are in flight at
\* any moment, and min(limit, number of targets) workers are started.
Thm_C8_BoundedPool ==
    /\ DETAIL_CONCURRENCY >= 1
    /\ Cardinality(InFlight) <= DETAIL_CONCURRENCY
    /\ page > PAGE_COUNT =>
          Len(wpc) = (IF DETAIL_CONCURRENCY <= Len(targets)
                      THEN DETAIL_CONCURRENCY ELSE Len(targets))

Wit_C8_PoolFull ==
    /\ pc = "enrich"
    /\ Len(targets) = 3
    /\ DETAIL_CONCURRENCY = 2
    /\ Cardinality(InFlight) = 2
    /\ next = 3

\* Every detail fetch resolves or rejects, every timer fires and the write
\* of the payload completes.
DetailSettles ==
    \E w \in DOMAIN wpc : DetailFail(w) \/ \E detail \in DetailSet : DetailOk(w, detail)
TimerFires == \E w \in DOMAIN wpc : SleepDone(w)

FairSpec ==
    /\ Spec
    /\ WF_vars(DetailSettles)
    /\ WF_vars(TimerFires)
    /\ WF_vars(WritePayload)

\* C9: once the list pages are in, enrichWithDetails eventually returns with
\* every worker ended, and the run writes the payload and ends with the exit
\* code never set, whatever detail fetches failed.
Thm_C9_RunSucceeds ==
    (page > PAGE_COUNT) ~>
        (/\ pc = "done"
         /\ \A w \in DOMAIN wpc : wpc[w] = "done"
         /\ writes = 1
         /\ file = FileOf(merged)
         /\ exitCode = 0)

Wit_C9_AllFetchesFailed ==
    /\ pc = "done"
    /\ writes = 1
    /\ exitCode = 0
    /\ Len(targets) >= 2
    /\ warned = 0..(Len(targets) - 1)

\* main ended inside the list-page loop.
ListAborted == pc = "done" /\ page <= PAGE_COUNT

\* C10: a step of the list loop that does not advance the page (a failed list
\* fetch) ends the run with the exit code set; a run ended in the list loop
\* has fetched no detail page and written no file, and takes no further
\* step; the exit code is set in no other way, and never by a step that logs
\* a detail failure.
Thm_C10_ListFailureAborts ==
    [][ /\ (pc = "list" /\ page' = page) => (pc' = "done" /\ exitCode' = 1)
        /\ ListAborted' =>
              /\ exitCode' = 1
              /\ writes' = 0
              /\ detailFetches' = << >>
              /\ targets' = << >>
        /\ ~ListAborted
        /\ exitCode' = 1 => ListAborted'
        /\ warned' # warned => exitCode' = 0
      ]_vars

Wit_C10_AbortedAtThirdPage ==
    /\ ListAborted
    /\ page = 3
    /\ Len(aggregated) = 2
    /\ exitCode = 1
    /\ writes = 0

\* The data file could not be read or parsed and enrichWithDetails has been
\* entered (the file is as the run found it until writePayload).
CacheUnreadable == pc \in {"enrich", "write"} /\ ~file.ok

\* C11: when the data file is missing or is not JSON, loadExistingMap returns
\* an empty map and nothing is thrown: the exit code stays unset, the merge
\* returns the aggregated events, the targets are exactly the events that
\* have a detailUrl, and the run goes on to write the payload.
Thm_C11_UnreadableCacheIsEmpty ==
    /\ [](CacheUnreadable =>
            /\ existingMap = EmptyMap
            /\ exitCode = 0
            /\ mergeResult = freshEvents
            /\ \A i \in DOMAIN merged :
                  Truthy(Get(merged[i], "detailUrl")) <=>
                      \E p \in DOMAIN targets : targets[p] = i)
    /\ CacheUnreadable ~>
          (pc = "done" /\ writes = 1 /\ file = FileOf(merged) /\ exitCode = 0)

Wit_C11_WrittenWithoutCache ==
    /\ pc = "done"
    /\ writes = 1
    /\ existingMap = EmptyMap
    /\ Len(targets) = 2
    /\ Len(merged) = 3
    /\ warned = {}

\* =========================================================== classifiers
\* A string is the sequence of its characters; a character outside ASCII is
\* named by its code point ("u96FB" is U+96FB).

\* Characters a title may carry.
MaxTitle == 3

Whitespace == { " " }

\* space, U+96FB U+5F71 U+7247 U+5531 (movie keywords), U+8B70 (meeting),
\* U+904A (the outing marker), U+65C5 (outing), U+8B1B U+7FD2 (workshop) and
\* one character that is in no keyword.
TitleChars ==
    { " ", "u96FB", "u5F71", "u7247", "u5531", "u8B70", "u904A", "u65C5",
      "u8B1B", "u7FD2", "x" }

TitleSet == UNION { [1..n -> TitleChars] : n \in 0..MaxTitle }

\* String.prototype.includes
Includes(s, word) ==
    \E k \in 0..(Len(s) - Len(word)) : SubSeq(s, k + 1, k + Len(word)) = word

\* String.prototype.trim
RECURSIVE Trim(_)
Trim(s) ==
    IF s = << >> THEN s
    ELSE IF Head(s) \in Whitespace THEN Trim(Tail(s))
    ELSE IF s[Len(s)] \in Whitespace THEN Trim(SubSeq(s, 1, Len(s) - 1))
    ELSE s

\* scripts/fetchEvents.js
CATEGORY_KEYWORDS ==
    [ meeting |->
        { << "u6703", "u8B70" >>,
          << "u7406", "u4E8B" >>,
          << "u7406", "u76E3", "u4E8B" >>,
          << "u59D4", "u54E1" >>,
          << "u6703", "u54E1" >>,
          << "u5EA7", "u8AC7" >>,
          << "u5927", "u6703" >>,
          << "u8B70" >> },
      outing |->
        { << "u51FA", "u904A" >>,
          << "u65C5", "u904A" >>,
          << "u65C5", "u884C" >>,
          << "u53C3", "u8A2A" >>,
          << "u89C0", "u6469" >>,
          << "u904A", "u7A0B" >>,
          << "u5718", "u904A" >> },
      movie |->
        { << "u96FB", "u5F71" >>,
          << "u5F71", "u5C55" >>,
          << "u5F71", "u5531" >>,
          << "u96FB", "u5F71", "u6D3B", "u52D5" >>,
          << "u6539", "u7248", "u64AD", "u653E" >> },
      workshop |->
        { << "u8B1B", "u7FD2" >>,
          << "u8AB2", "u7A0B" >>,
          << "u7814", "u7FD2" >>,
          << "u57F9", "u8A13" >>,
          << "u8B1B", "u5EA7" >>,
          << "u8B1B", "u5802" >>,
          << "u5DE5", "u4F5C", "u574A" >>,
          << "u8A13", "u7DF4" >> } ]

\* A priority list that tries meeting first.
CATEGORY_PRIORITY_MeetingFirst == << "meeting", "movie", "workshop", "outing" >>

CATEGORY_PRIORITY == << "movie", "workshop", "meeting", "outing" >>

OUTING_MARKERS == { << "u904A" >> }

\* keywords.some((word) => normalized.includes(word))
SomeIncluded(words, normalized) == \E word \in words : Includes(normalized, word)

\* The for loop over the priority list from position i on: the first
\* category with a keyword in the title, "none" when the loop runs out.
RECURSIVE FirstByPriority(_, _, _, _)
FirstByPriority(priority, keywords, normalized, i) ==
    IF i > Len(priority) THEN "none"
    ELSE IF priority[i] \in DOMAIN keywords
            /\ SomeIncluded(keywords[priority[i]], normalized)
         THEN priority[i]
         ELSE FirstByPriority(priority, keywords, normalized, i + 1)

\* detectCategory(title) of the scraper.
DetectCategory(t) ==
    IF t = << >> THEN "other"
    ELSE LET normalized == Trim(t)
             found == FirstByPriority(CATEGORY_PRIORITY, CATEGORY_KEYWORDS,
                                      normalized, 1)
         IN  IF found # "none" THEN found
             ELSE IF SomeIncluded(OUTING_MARKERS, normalized) THEN "outing"
             ELSE "other"

\* app.js
APP_CATEGORY_KEYWORDS ==
    [ outing |->
        { << "u51FA", "u904A" >>,
          << "u65C5", "u904A" >>,
          << "u65C5", "u884C" >>,
          << "u53C3", "u8A2A" >>,
          << "u89C0", "u6469" >>,
          << "u904A", "u7A0B" >>,
          << "u570B", "u5916", "u65C5", "u904A" >>,
          << "u5718", "u904A" >> },
      meeting |->
        { << "u6703", "u8B70" >>,
          << "u7406", "u4E8B" >>,
          << "u7406", "u76E3", "u4E8B" >>,
          << "u59D4", "u54E1" >>,
          << "u6703", "u54E1" >>,
          << "u5EA7", "u8AC7" >>,
          << "u5927", "u6703" >>,
          << "u8B70" >> },
      movie |->
        { << "u96FB", "u5F71" >>,
          << "u5F71", "u5C55" >>,
          << "u5F71", "u8996" >>,
          << "u96FB", "u5F71", "u6B23", "u8CDE" >>,
          << "u5F71", "u7247" >>,
          << "u653E", "u6620" >> },
      workshop |->
        { << "u8B1B", "u7FD2" >>,
          << "u8AB2", "u7A0B" >>,
          << "u7814", "u7FD2" >>,
          << "u57F9", "u8A13" >>,
          << "u8B1B", "u5EA7" >>,
          << "u8B1B", "u5802" >>,
          << "u5DE5", "u4F5C", "u574A" >>,
          << "u8A13", "u7DF4" >> },
      other |->
        { << "u5176", "u4ED6" >> } ]

APP_OUTING_MARKERS == { << "u904A" >> }
APP_CATEGORY_PRIORITY == << "movie", "workshop", "meeting", "outing" >>

\* detectCategoryFromTitle(title) of the page: the marker is tested first.
DetectCategoryFromTitle(t) ==
    IF t = << >> THEN "other"
    ELSE LET normalized == Trim(t)
         IN  IF SomeIncluded(APP_OUTING_MARKERS, normalized) THEN "outing"
             ELSE LET found == FirstByPriority(APP_CATEGORY_PRIORITY,
                                               APP_CATEGORY_KEYWORDS, normalized, 1)
                  IN  IF found # "none" THEN found ELSE "other"

\* The scraper side as the classifier and page specifications hold it.
ScraperIdle ==
    /\ envConcurrency = 0
    /\ envDelay = 0
    /\ file = NoFile
    /\ pc = "list"
    /\ page = 1
    /\ seen = {}
    /\ aggregated = << >>
    /\ existingMap = EmptyMap
    /\ merged = << >>
    /\ targets = << >>
    /\ next = 0
    /\ wpc = << >>
    /\ current = << >>
    /\ exitCode = 0
    /\ firstSeen = << >>
    /\ duplicates = 0
    /\ freshEvents = << >>
    /\ mergeResult = << >>
    /\ detailFetches = << >>
    /\ warned = {}
    /\ writes = 0
    /\ reads = 0
    /\ storedComplete = {}
    /\ unkeyed = 0

\* A title is handed to both classifiers.
ClassifyInit ==
    /\ title \in TitleSet
    /\ byScraper = Undef
    /\ byFrontend = Undef
    /\ ScraperIdle
    /\ EnrichIdle
    /\ PageIdle

\* parseEvents classifies the title of a row.
ScraperClassifies ==
    /\ byScraper = Undef
    /\ byScraper' = DetectCategory(title)
    /\ UNCHANGED << title, byFrontend, scraperVars, enrichVars, pageVars >>

\* enrichEvent classifies the title of an event that carries no category.
FrontendClassifies ==
    /\ byFrontend = Undef
    /\ byFrontend' = DetectCategoryFromTitle(title)
    /\ UNCHANGED << title, byScraper, scraperVars, enrichVars, pageVars >>

ClassifyNext == ScraperClassifies \/ FrontendClassifies

ClassifySpec == ClassifyInit /\ [][ClassifyNext]_vars

\* Some keyword of the scraper's table for the category occurs in s.
Hits(category, s) ==
    \E word \in CATEGORY_KEYWORDS[category] :
        \E k \in 1..Len(s) :
            \A j \in 1..Len(word) : k + j - 1 <= Len(s) /\ s[k + j - 1] = word[j]

\* C13: detectCategory returns movie when a movie keyword occurs in the
\* trimmed title; else workshop when a workshop keyword occurs; else meeting
\* when a meeting keyword occurs; else outing when an outing keyword or the
\* outing marker occurs; else other.  So a movie keyword together with a
\* meeting keyword gives movie, a workshop keyword together with a meeting
\* keyword gives workshop.
Thm_C13_PriorityOrder ==
    byScraper # Undef =>
        LET s == Trim(title)
            marker == \E k \in 1..Len(s) : s[k] = "u904A"
        IN  /\ byScraper \in { "movie", "workshop", "meeting", "outing", "other" }
            /\ byScraper = "movie" <=> Hits("movie", s)
            /\ byScraper = "workshop" <=> ~Hits("movie", s) /\ Hits("workshop", s)
            /\ byScraper = "meeting" <=>
                  /\ ~Hits("movie", s) /\ ~Hits("workshop", s)
                  /\ Hits("meeting", s)
            /\ byScraper = "outing" <=>
                  /\ ~Hits("movie", s) /\ ~Hits("workshop", s)
                  /\ ~Hits("meeting", s)
                  /\ (Hits("outing", s) \/ marker)
            /\ Hits("movie", s) /\ Hits("meeting", s) => byScraper = "movie"
            /\ Hits("workshop", s) /\ Hits("meeting", s) /\ ~Hits("movie", s)
                  => byScraper = "workshop"

Wit_C13_MovieAndMeeting ==
    /\ byScraper = "movie"
    /\ title = << "u8B70", "u96FB", "u5F71" >>

\* C14: detectCategory and detectCategoryFromTitle return the same category
\* for every title.
Orig_C14_SameCategory ==
    (byScraper # Undef /\ byFrontend # Undef) => byScraper = byFrontend

\* ================================================================= dates
\* A Date is its time value; the model counts it in seconds, the code in
\* milliseconds (every instant of the model is a whole second and none is
\* before 1970).  NaN is written -1: the numbers that can be NaN are numbers
\* read from digits and time values.  A Date or null, like a number or null,
\* is the set of at most one value: {} is null.
NaN == -1
NoValue == {}
Some(v) == { v }
ValueOf(option) == CHOOSE v \in option : TRUE
SecondsPerDay == 86400
TaipeiOffset == 8 * 3600

Digits == << "0", "1", "2", "3", "4", "5", "6", "7", "8", "9" >>
IsDigit(c) == \E v \in 1..10 : Digits[v] = c
DigitValue(c) == (CHOOSE v \in 1..10 : Digits[v] = c) - 1

\* The number written by the digits s[from..to], NaN if one is no digit.
RECURSIVE Number(_, _, _)
Number(s, from, to) ==
    IF from > to THEN 0
    ELSE IF ~IsDigit(s[to]) THEN NaN
    ELSE LET rest == Number(s, from, to - 1)
         IN  IF rest = NaN THEN NaN ELSE 10 * rest + DigitValue(s[to])

\* n in decimal, padded with zeros to the width.
RECURSIVE Padded(_, _)
Padded(n, width) ==
    IF width = 0 THEN << >>
    ELSE Padded(n \div 10, width - 1) \o << Digits[(n % 10) + 1] >>

IsLeap(y) == (y % 4 = 0 /\ y % 100 # 0) \/ y % 400 = 0
DaysInMonth(y, m) ==
    IF m = 2 THEN (IF IsLeap(y) THEN 29 ELSE 28)
    ELSE IF m \in {4, 6, 9, 11} THEN 30 ELSE 31

\* Days from 1970-01-01 to the civil date y-m-d (proleptic Gregorian).
DaysFromCivil(y, m, d) ==
    LET yy == IF m <= 2 THEN y - 1 ELSE y
        era == yy \div 400
        yoe == yy - era * 400
        mp == IF m > 2 THEN m - 3 ELSE m + 9
        doy == (153 * mp + 2) \div 5 + d - 1
        doe == yoe * 365 + yoe \div 4 - yoe \div 100 + doy
    IN  era * 146097 + doe - 719468

\* The civil date of the day that many days after 1970-01-01.
CivilFromDays(days) ==
    LET z == days + 719468
        era == z \div 146097
        doe == z - era * 146097
        yoe == (doe - doe \div 1460 + doe \div 36524 - doe \div 146096) \div 365
        doy == doe - (365 * yoe + yoe \div 4 - yoe \div 100)
        mp == (5 * doy + 2) \div 153
        m == IF mp < 10 THEN mp + 3 ELSE mp - 9
    IN  [year |-> yoe + era * 400 + (IF m <= 2 THEN 1 ELSE 0),
         month |-> m,
         day |-> doy - (153 * mp + 2) \div 5 + 1]

\* new Date(s).getTime() for a string in the date-time format of the
\* language with seconds and offset, YYYY-MM-DDTHH:mm:ss+HH:mm; NaN for
\* every other string (the date strings of the model are of this format once
\* completed, or are strings no engine parses).
DateTimeValue(s) ==
    IF \/ Len(s) # 25
       \/ s[5] # "-" \/ s[8] # "-" \/ s[11] # "T"
       \/ s[14] # ":" \/ s[17] # ":" \/ s[20] \notin {"+", "-"} \/ s[23] # ":"
    THEN NaN
    ELSE LET y == Number(s, 1, 4)
             m == Number(s, 6, 7)
             d == Number(s, 9, 10)
             hh == Number(s, 12, 13)
             mm == Number(s, 15, 16)
             ss == Number(s, 18, 19)
             oh == Number(s, 21, 22)
             om == Number(s, 24, 25)
         IN  IF NaN \in {y, m, d, hh, mm, ss, oh, om} THEN NaN
             ELSE IF \/ m \notin 1..12 \/ d \notin 1..DaysInMonth(y, m)
                     \/ hh > 23 \/ mm > 59 \/ ss > 59 \/ oh > 23 \/ om > 59
             THEN NaN
             ELSE LET offset == (IF s[20] = "+" THEN 1 ELSE -1) * (oh * 3600 + om * 60)
                  IN  DaysFromCivil(y, m, d) * SecondsPerDay
                          + hh * 3600 + mm * 60 + ss - offset

\* value.replace(/\//g, '-')
ReplaceSlashes(s) == [k \in DOMAIN s |-> IF s[k] = "/" THEN "-" ELSE s[k]]

MidnightTaipei ==
    << "T", "0", "0", ":", "0", "0", ":", "0", "0", "+", "0", "8", ":", "0", "0" >>

\* parseDate(value): the Date, or null.
ParseDate(value) ==
    IF value = << >> THEN NoValue
    ELSE LET normalized == ReplaceSlashes(Trim(value))
             isoCandidate == IF Len(normalized) = 10
                             THEN normalized \o MidnightTaipei
                             ELSE normalized
             parsed == DateTimeValue(isoCandidate)
         IN  IF parsed = NaN THEN NoValue ELSE Some(parsed)

\* taipeiDateFormatter.format(instant): YYYY-MM-DD of the Taipei day.
TaipeiFormat(instant) ==
    LET c == CivilFromDays((instant + TaipeiOffset) \div SecondsPerDay)
    IN  Padded(c.year, 4) \o << "-" >> \o Padded(c.month, 2) \o << "-" >>
            \o Padded(c.day, 2)

\* getTaipeiToday() when Date.now() is the instant.
GetTaipeiToday(instant) == ParseDate(TaipeiFormat(instant))

\* Text(y, m, d, sep) is the date string y sep m sep d.
Text(y, m, d, sep) ==
    Padded(y, 4) \o << sep >> \o Padded(m, 2) \o << sep >> \o Padded(d, 2)

UPCOMING_SOON_DAYS == 7

\* Raw date strings one event may carry.
MaxDates == 2
\* Calls of enrichEvent on the event.
MaxCalls == 2

\* Raw date strings: bare dates with either separator, one with a blank in
\* front, a date and time with offset, a date with month 13, a word, and the
\* empty string.
RawDateSet ==
    { Text(2024, 6, 8, "-"),
      Text(2024, 6, 9, "/"),
      Text(2024, 5, 20, "-"),
      << " " >> \o Text(2024, 6, 1, "-"),
      Text(2024, 6, 1, "-")
          \o << "T", "1", "0", ":", "3", "0", ":", "0", "0", "+", "0", "8", ":", "0", "0" >>,
      Text(2024, 13, 1, "-"),
      << "T", "B", "A" >>,
      << >> }

DatesSet == UNION { [1..n -> RawDateSet] : n \in 0..MaxDates }

\* Events of a payload: with dates and no category (as an older payload has
\* them), and with a category, a null category and no dates property.
PlainTitle == << "x" >>
MeetingTitle == << "u8B70" >>
EventSet ==
    { [title |-> PlainTitle, dates |-> dates] : dates \in DatesSet }
    \cup { [title |-> MeetingTitle, dates |-> << Text(2024, 6, 8, "-") >>,
            category |-> "outing"],
           [title |-> MeetingTitle, dates |-> << Text(2024, 6, 8, "-") >>,
            category |-> Null],
           [title |-> MeetingTitle] }

\* Date.now() at 2024-05-31T23:59:59, 2024-06-01T00:00:00 and
\* 2024-06-01T15:00:00, Taipei time.
NowSet == { 1717171199, 1717171200, 1717225200 }

\* sort((a, b) => a.getTime() - b.getTime()): place the value after the last
\* element not greater than it (the sort is stable).
RECURSIVE InsertDate(_, _)
InsertDate(sorted, date) ==
    IF sorted = << >> THEN << date >>
    ELSE IF sorted[Len(sorted)] - date <= 0 THEN Append(sorted, date)
    ELSE Append(InsertDate(SubSeq(sorted, 1, Len(sorted) - 1), date),
                sorted[Len(sorted)])

\* The dates left in the order they were parsed.
RECURSIVE SortDatesLeftAsIs(_, _, _)
SortDatesLeftAsIs(sorted, dates, i) ==
    IF i > Len(dates) THEN sorted
    ELSE SortDatesLeftAsIs(Append(sorted, dates[i]), dates, i + 1)

RECURSIVE SortDates(_, _, _)
SortDates(sorted, dates, i) ==
    IF i > Len(dates) THEN sorted
    ELSE SortDates(InsertDate(sorted, dates[i]), dates, i + 1)

\* dates.map(parseDate).filter(Boolean): the time values, in order.
RECURSIVE ParseAll(_, _)
ParseAll(dates, i) ==
    IF i > Len(dates) THEN << >>
    ELSE LET parsed == ParseDate(dates[i])
         IN  (IF parsed = NoValue THEN << >> ELSE << ValueOf(parsed) >>)
             \o ParseAll(dates, i + 1)

\* parsedDates.find((date) => date > today)
RECURSIVE FirstAfter(_, _, _)
FirstAfter(parsedDates, today, i) ==
    IF i > Len(parsedDates) THEN NoValue
    ELSE IF parsedDates[i] > today THEN Some(parsedDates[i])
    ELSE FirstAfter(parsedDates, today, i + 1)

\* parsedDates.find((date) => date >= today)
RECURSIVE FirstAtLeast(_, _, _)
FirstAtLeast(parsedDates, today, i) ==
    IF i > Len(parsedDates) THEN NoValue
    ELSE IF parsedDates[i] >= today THEN Some(parsedDates[i])
    ELSE FirstAtLeast(parsedDates, today, i + 1)

\* The status with the bound of coming-soon left out.
StatusOfStrictBound(diffDays) ==
    IF diffDays < 0 THEN "past"
    ELSE IF diffDays < UPCOMING_SOON_DAYS THEN "coming-soon"
    ELSE "upcoming"

\* The if chain over diffDays.
StatusOf(diffDays) ==
    IF diffDays < 0 THEN "past"
    ELSE IF diffDays <= UPCOMING_SOON_DAYS THEN "coming-soon"
    ELSE "upcoming"

\* enrichEvent(event) called when Date.now() is the instant.
EnrichEvent(evt, instant) ==
    LET parsedDates ==
            SortDates(<< >>, ParseAll(IF "dates" \in DOMAIN evt THEN evt.dates
                                      ELSE << >>, 1), 1)
        today == ValueOf(GetTaipeiToday(instant))
        upcomingDate == FirstAtLeast(parsedDates, today, 1)
        referenceDate ==
            IF upcomingDate # NoValue THEN upcomingDate
            ELSE IF parsedDates # << >> THEN Some(parsedDates[Len(parsedDates)])
            ELSE NoValue
        diffDays == IF referenceDate = NoValue THEN 0
                    ELSE (ValueOf(referenceDate) - today) \div SecondsPerDay
    IN  [category |->
             IF Get(evt, "category") \in {Null, Undef}
             THEN DetectCategoryFromTitle(IF "title" \in DOMAIN evt THEN evt.title
                                          ELSE << >>)
             ELSE evt.category,
         parsedDates |-> parsedDates,
         startDate |-> IF parsedDates # << >> THEN Some(parsedDates[1]) ELSE NoValue,
         endDate |-> IF parsedDates # << >>
                     THEN Some(parsedDates[Len(parsedDates)]) ELSE NoValue,
         referenceDate |-> referenceDate,
         statusCategory |->
             IF referenceDate = NoValue THEN "no-date" ELSE StatusOf(diffDays),
         daysUntilStart |-> IF referenceDate = NoValue THEN NoValue ELSE Some(diffDays)]
        @@ evt

\* An event of the payload is enriched, some time of the day.
EnrichInit ==
    /\ rawEvent \in EventSet
    /\ now \in NowSet
    /\ enrichCalls = << >>
    /\ ScraperIdle
    /\ ClassifyIdle
    /\ PageIdle

\* Time passes.
ClockAdvances ==
    /\ \E later \in NowSet : later > now /\ now' = later
    /\ UNCHANGED << rawEvent, enrichCalls, scraperVars, classifyVars, pageVars >>

\* enrichEvent(event) is called (by the map of loadEvents, at a load of the
\* page).
EnrichEventCalled ==
    /\ Len(enrichCalls) < MaxCalls
    /\ enrichCalls' = Append(enrichCalls,
                             [instant |-> now, returned |-> EnrichEvent(rawEvent, now)])
    /\ UNCHANGED << rawEvent, now, scraperVars, classifyVars, pageVars >>

EnrichNext == ClockAdvances \/ EnrichEventCalled

EnrichSpec == EnrichInit /\ [][EnrichNext]_vars

\* Midnight, Taipei time, of the Taipei day the instant lies in.
TaipeiMidnight(instant) == instant - ((instant + TaipeiOffset) % SecondsPerDay)

\* The raw dates of the event (none without a dates property).
RawDates == IF "dates" \in DOMAIN rawEvent THEN rawEvent.dates ELSE << >>

\* Time values of the raw dates that parse.
ParsedValues ==
    { ValueOf(ParseDate(RawDates[i])) :
          i \in { j \in DOMAIN RawDates : ParseDate(RawDates[j]) # NoValue } }

\* Day differences the dates of the model can give.
DayRange == -60..60

\* C15: enrichEvent sets daysUntilStart to the number d of whole days from
\* today (midnight in Taipei of the current day) to the reference date,
\* today + d days <= referenceDate < today + (d + 1) days, and statusCategory
\* to past for d < 0, coming-soon for 0 <= d <= 7 and upcoming for d > 7;
\* without reference date statusCategory is no-date and daysUntilStart null.
\* On 2024-06-01 the date 2024-06-08 gives 7 and coming-soon, the date
\* 2024-05-20 gives -12 and past.
Thm_C15_StatusFromDayDifference ==
    \A c \in DOMAIN enrichCalls :
        LET r == enrichCalls[c].returned
            today == TaipeiMidnight(enrichCalls[c].instant)
        IN  /\ r.referenceDate = NoValue =>
                  r.statusCategory = "no-date" /\ r.daysUntilStart = NoValue
            /\ r.referenceDate # NoValue =>
                  \E d \in DayRange :
                      /\ today + d * SecondsPerDay <= ValueOf(r.referenceDate)
                      /\ ValueOf(r.referenceDate) < today + (d + 1) * SecondsPerDay
                      /\ r.daysUntilStart = Some(d)
                      /\ d < 0 => r.statusCategory = "past"
                      /\ d \in 0..7 => r.statusCategory = "coming-soon"
                      /\ d > 7 => r.statusCategory = "upcoming"
            /\ (today = 1717171200 /\ RawDates = << Text(2024, 6, 8, "-") >>) =>
                  r.daysUntilStart = Some(7) /\ r.statusCategory = "coming-soon"
            /\ (today = 1717171200 /\ RawDates = << Text(2024, 5, 20, "-") >>) =>
                  r.daysUntilStart = Some(0 - 12) /\ r.statusCategory = "past"
            /\ RawDates = << >> =>
                  r.statusCategory = "no-date" /\ r.referenceDate = NoValue

Wit_C15_SevenDaysAhead ==
    /\ Len(enrichCalls) >= 1
    /\ enrichCalls[1].instant = 1717225200
    /\ RawDates = << Text(2024, 6, 8, "-") >>
    /\ enrichCalls[1].returned.daysUntilStart = Some(7)
    /\ enrichCalls[1].returned.statusCategory = "coming-soon"

Least(values) == CHOOSE v \in values : \A w \in values : v <= w
Greatest(values) == CHOOSE v \in values : \A w \in values : v >= w

\* C16: referenceDate is the earliest parsed date on or after today; if
\* there is none, the latest parsed date; if no date parses, null.
Thm_C16_ReferenceDate ==
    \A c \in DOMAIN enrichCalls :
        LET r == enrichCalls[c].returned
            today == TaipeiMidnight(enrichCalls[c].instant)
            ahead == { v \in ParsedValues : v >= today }
        IN  r.referenceDate =
                IF ahead # {} THEN Some(Least(ahead))
                ELSE IF ParsedValues # {} THEN Some(Greatest(ParsedValues))
                ELSE NoValue

Wit_C16_NextDateAfterPastOne ==
    /\ Len(enrichCalls) >= 1
    /\ RawDates = << Text(2024, 6, 9, "/"), Text(2024, 5, 20, "-") >>
    /\ enrichCalls[1].returned.referenceDate = Some(1717171200 + 8 * SecondsPerDay)

\* C17: two calls of enrichEvent on the same event return the same
\* statusCategory and daysUntilStart.
Orig_C17_SameResultEveryCall ==
    \A c, d \in DOMAIN enrichCalls :
        /\ enrichCalls[c].returned.statusCategory = enrichCalls[d].returned.statusCategory
        /\ enrichCalls[c].returned.daysUntilStart = enrichCalls[d].returned.daysUntilStart

\* How often the value occurs in the sequence.
Occurrences(seq, v) == Cardinality({ i \in DOMAIN seq : seq[i] = v })

\* C18: parsedDates is in ascending order and holds the time value of every
\* raw date string that parses, once per string, and nothing else; startDate
\* is its first and endDate its last element, both null when it is empty;
\* enrichEvent returns the event with all its properties whatever its date
\* strings are.
Thm_C18_ParsedDatesSorted ==
    \A c \in DOMAIN enrichCalls :
        LET r == enrichCalls[c].returned
            parsedDates == r.parsedDates
            parsable == { j \in DOMAIN RawDates : ParseDate(RawDates[j]) # NoValue }
        IN  /\ \A i, j \in DOMAIN parsedDates : i < j => parsedDates[i] <= parsedDates[j]
            /\ Len(parsedDates) = Cardinality(parsable)
            /\ \A v \in ParsedValues :
                  Occurrences(parsedDates, v) =
                      Cardinality({ j \in parsable : ParseDate(RawDates[j]) = Some(v) })
            /\ r.startDate = IF parsedDates = << >> THEN NoValue ELSE Some(parsedDates[1])
            /\ r.endDate = IF parsedDates = << >> THEN NoValue
                           ELSE Some(parsedDates[Len(parsedDates)])
            /\ \A k \in DOMAIN rawEvent \ { "category" } : r[k] = rawEvent[k]
            /\ RawDates = << Text(2024, 6, 9, "/"), Text(2024, 5, 20, "-") >> =>
                  parsedDates = << 1716134400, 1717862400 >>
            /\ RawDates = << Text(2024, 13, 1, "-"), Text(2024, 6, 8, "-") >> =>
                  parsedDates = << 1717776000 >>
            /\ RawDates = << << "T", "B", "A" >>, << >> >> => parsedDates = << >>

Wit_C18_UnparsableLeftOut ==
    /\ Len(enrichCalls) = MaxCalls
    /\ RawDates = << Text(2024, 13, 1, "-"), Text(2024, 6, 8, "-") >>
    /\ enrichCalls[1].returned.parsedDates = << 1717776000 >>
    /\ enrichCalls[1].returned.startDate = enrichCalls[1].returned.endDate
    /\ enrichCalls[1].returned.title = PlainTitle

\* ================================================================== page
\* Events one payload may carry.
MaxEvents == 3

DEFAULT_STATUS_VALUES == { "coming-soon", "upcoming" }

\* The document is not part of the sources: it is taken to carry one status
\* checkbox per status category, and the options below in its two selects.
StatusValues == { "coming-soon", "upcoming", "past", "no-date" }
SortValues == { "start-asc", "start-desc", "title-asc" }
CategoryValues == { "all", "meeting", "outing" }

\* What the user may type into the search box.
SearchInputSet == { << >>, << "a" >>, << " ", "B" >> }

\* An event as the scraper writes it; titles and locations are in lower-case
\* Latin letters.
PayloadEvent(t, location, dates, category) ==
    [title |-> t, location |-> location, dates |-> dates, timeInfo |-> << >>,
     category |-> category]

PayloadEventSet ==
    { PayloadEvent(<< "b" >>, << "h" >>, << Text(2024, 6, 8, "-") >>, "meeting"),
      PayloadEvent(<< "a" >>, << "h" >>, << Text(2024, 6, 8, "/") >>, "outing"),
      PayloadEvent(<< "c" >>, << "B" >>, << Text(2024, 6, 20, "-") >>, "meeting"),
      PayloadEvent(<< "d" >>, << "h" >>, << >>, "other"),
      PayloadEvent(<< "a" >>, << "h" >>, << << "T", "B", "A" >> >>, "meeting") }

PayloadSet == UNION { [1..n -> PayloadEventSet] : n \in 0..MaxEvents }

\* String.prototype.toLowerCase, for the letters of the model.
LowerCase(c) ==
    IF c = "A" THEN "a" ELSE IF c = "B" THEN "b" ELSE IF c = "T" THEN "t" ELSE c
ToLowerCase(s) == [k \in DOMAIN s |-> LowerCase(s[k])]

\* parts.join(' ')
RECURSIVE Join(_, _)
Join(parts, i) ==
    IF i > Len(parts) THEN << >>
    ELSE parts[i] \o (IF i < Len(parts) THEN << " " >> ELSE << >>) \o Join(parts, i + 1)

\* A search that looks into the title only.
SearchTextTitleOnly(evt) == ToLowerCase(evt.title)

\* The text the search looks into.
SearchText(evt) ==
    ToLowerCase(Join(<< evt.title, evt.location >> \o evt.dates \o evt.timeInfo, 1))

\* Array.prototype.filter
RECURSIVE Filter(_, _, _)
Filter(evs, keep, i) ==
    IF i > Len(evs) THEN << >>
    ELSE (IF i \in keep THEN << evs[i] >> ELSE << >>) \o Filter(evs, keep, i + 1)

\* a.localeCompare(b, 'zh-Hant') for strings of lower-case Latin letters:
\* the order of the alphabet, a shorter string before its extensions.
LetterRank(c) == CHOOSE r \in 1..4 : << "a", "b", "c", "d" >>[r] = c
RECURSIVE LocaleCompare(_, _)
LocaleCompare(a, b) ==
    IF a = << >> /\ b = << >> THEN 0
    ELSE IF a = << >> THEN -1
    ELSE IF b = << >> THEN 1
    ELSE IF Head(a) # Head(b) THEN LetterRank(Head(a)) - LetterRank(Head(b))
    ELSE LocaleCompare(Tail(a), Tail(b))

\* a.referenceDate || a.startDate
StartOf(evt) == IF evt.referenceDate # NoValue THEN evt.referenceDate ELSE evt.startDate

\* compareStart(a, b)
CompareStart(a, b) ==
    LET aDate == StartOf(a)
        bDate == StartOf(b)
    IN  IF aDate = NoValue /\ bDate = NoValue THEN 0
        ELSE IF aDate = NoValue THEN 1
        ELSE IF bDate = NoValue THEN -1
        ELSE ValueOf(aDate) - ValueOf(bDate)

\* A comparator that takes no account of missing dates (null as time 0).
ComparatorNullAsZero(sort, a, b) ==
    LET aTime == IF StartOf(a) = NoValue THEN 0 ELSE ValueOf(StartOf(a))
        bTime == IF StartOf(b) = NoValue THEN 0 ELSE ValueOf(StartOf(b))
    IN  IF sort = "start-desc" THEN bTime - aTime
        ELSE IF sort = "title-asc" THEN LocaleCompare(a.title, b.title)
        ELSE aTime - bTime

\* The comparator the switch on state.filters.sort hands to sort.
Comparator(sort, a, b) ==
    IF sort = "start-desc" THEN CompareStart(b, a)
    ELSE IF sort = "title-asc" THEN LocaleCompare(a.title, b.title)
    ELSE CompareStart(a, b)

\* Array.prototype.sort (stable): the element is placed after the last one
\* that the comparator does not put behind it.
RECURSIVE InsertEvent(_, _, _)
InsertEvent(sorted, evt, sort) ==
    IF sorted = << >> THEN << evt >>
    ELSE IF Comparator(sort, sorted[Len(sorted)], evt) <= 0 THEN Append(sorted, evt)
    ELSE Append(InsertEvent(SubSeq(sorted, 1, Len(sorted) - 1), evt, sort),
                sorted[Len(sorted)])

RECURSIVE SortEvents(_, _, _, _)
SortEvents(sorted, evs, sort, i) ==
    IF i > Len(evs) THEN sorted
    ELSE SortEvents(InsertEvent(sorted, evs[i], sort), evs, sort, i + 1)

\* applyFilters() on the state st.  The events of state.events are results
\* of enrichEvent, which sets statusCategory and category, and carry a title:
\* the defaults of ?? and || are never taken.
ApplyFilters(st) ==
    LET query == ToLowerCase(st.filters.search)
        bySearch ==
            IF query # << >>
            THEN Filter(st.events,
                        { i \in DOMAIN st.events : Includes(SearchText(st.events[i]), query) },
                        1)
            ELSE st.events
        byStatus ==
            IF st.filters.statuses # {}
            THEN Filter(bySearch,
                        { i \in DOMAIN bySearch :
                              bySearch[i].statusCategory \in st.filters.statuses }, 1)
            ELSE bySearch
        byCategory ==
            IF st.filters.category # "all"
            THEN Filter(byStatus,
                        { i \in DOMAIN byStatus :
                              byStatus[i].category = st.filters.category }, 1)
            ELSE byStatus
    IN  SortEvents(<< >>, byCategory, st.filters.sort, 1)

\* updateStatus(filtered, total), setListVisibility(filtered > 0)
UpdateStatus(d, filtered, total) ==
    [d EXCEPT !.statusError = FALSE,
              !.statusText = IF total = 0 THEN "no events"
                             ELSE IF filtered = 0 THEN "no match"
                             ELSE "count",
              !.listHidden = ~(filtered > 0)]

\* render(): the state and the document after it.
Render(st, d) ==
    LET filtered == ApplyFilters(st)
    IN  [state |-> [st EXCEPT !.filtered = filtered],
         dom |-> UpdateStatus(d, Len(filtered), Len(st.events))]

SetPage(after) == state' = after.state /\ dom' = after.dom

\* syncStatusCheckboxes()
SyncStatusCheckboxes(d, statuses) ==
    [d EXCEPT !.checked = [value \in StatusValues |-> value \in statuses]]

DefaultFilters ==
    [search |-> << >>, sort |-> "start-asc", category |-> "all",
     statuses |-> DEFAULT_STATUS_VALUES]

\* events.map(enrichEvent)
MapEnrich(payload, instant) ==
    [i \in DOMAIN payload |-> EnrichEvent(payload[i], instant)]

\* The day the page is opened: 2024-06-01, 15:00 in Taipei.
LoadInstant == 1717225200

\* The script has run: default filters, checkboxes synchronised, the fetch of
\* the payload in flight.
PageInit ==
    /\ state = [events |-> << >>, filtered |-> << >>, filters |-> DefaultFilters]
    /\ dom = SyncStatusCheckboxes(
                 [checked |-> [value \in StatusValues |-> FALSE],
                  searchValue |-> << >>, statusText |-> "initial",
                  statusError |-> FALSE, listHidden |-> FALSE],
                 DEFAULT_STATUS_VALUES)
    /\ loading = "pending"
    /\ ScraperIdle
    /\ ClassifyIdle
    /\ EnrichIdle

\* The payloads the page specification loads.
PagePayloads ==
    { << >>,
      << PayloadEvent(<< "b" >>, << "h" >>, << Text(2024, 6, 8, "-") >>, "meeting"),
         PayloadEvent(<< "d" >>, << "h" >>, << >>, "other"),
         PayloadEvent(<< "c" >>, << "b" >>, << Text(2024, 6, 20, "-") >>, "meeting") >> }

\* The payload arrives: the events are enriched and rendered.
LoadOk(payload) ==
    /\ loading = "pending"
    /\ SetPage(Render([state EXCEPT !.events = MapEnrich(payload, LoadInstant)], dom))
    /\ loading' = "loaded"
    /\ UNCHANGED << scraperVars, classifyVars, enrichVars >>

\* fetch rejects, the response is not OK or is not JSON: the catch shows the
\* error message.
LoadFail ==
    /\ loading = "pending"
    /\ dom' = [dom EXCEPT !.statusText = "error", !.statusError = TRUE]
    /\ loading' = "failed"
    /\ UNCHANGED << state, scraperVars, classifyVars, enrichVars >>

\* The page is open and no handler is running.
Quiescent == loading \in { "pending", "loaded", "failed" }

\* The change handler without the test for the empty set.
ToggleStatusUnguarded(st, d, value) ==
    LET checked == ~d.checked[value]
        toggled == [d EXCEPT !.checked[value] = checked]
    IN  Render([st EXCEPT !.filters.statuses =
                    IF checked THEN @ \cup { value } ELSE @ \ { value }],
               toggled)

\* The change handler that puts the last status back and leaves the checkbox
\* as the click left it.
ToggleStatusNoRecheck(st, d, value) ==
    LET checked == ~d.checked[value]
        toggled == [d EXCEPT !.checked[value] = checked]
    IN  IF checked
        THEN Render([st EXCEPT !.filters.statuses = @ \cup { value }], toggled)
        ELSE LET deleted == st.filters.statuses \ { value }
             IN  IF deleted = {}
                 THEN [state |-> st, dom |-> toggled]
                 ELSE Render([st EXCEPT !.filters.statuses = deleted], toggled)

\* The change handler of the checkbox with the value, after the click has
\* toggled the checkbox.
ToggleStatus(st, d, value) ==
    LET checked == ~d.checked[value]
        toggled == [d EXCEPT !.checked[value] = checked]
    IN  IF checked
        THEN Render([st EXCEPT !.filters.statuses = @ \cup { value }], toggled)
        ELSE LET deleted == st.filters.statuses \ { value }
             IN  IF deleted = {}
                 THEN [state |-> [st EXCEPT !.filters.statuses = deleted \cup { value }],
                       dom |-> [toggled EXCEPT !.checked[value] = TRUE]]
                 ELSE Render([st EXCEPT !.filters.statuses = deleted], toggled)

\* The user clicks a status checkbox.
StatusChange(value) ==
    /\ Quiescent
    /\ SetPage(ToggleStatus(state, dom, value))
    /\ UNCHANGED << loading, scraperVars, classifyVars, enrichVars >>

\* The user edits the search box.
SearchInput(text) ==
    /\ Quiescent
    /\ text # dom.searchValue
    /\ SetPage(Render([state EXCEPT !.filters.search = Trim(text)],
                      [dom EXCEPT !.searchValue = text]))
    /\ UNCHANGED << loading, scraperVars, classifyVars, enrichVars >>

\* The user presses Escape in the search box.
SearchEscape ==
    /\ Quiescent
    /\ IF dom.searchValue # << >>
       THEN SetPage(Render([state EXCEPT !.filters.search = << >>],
                           [dom EXCEPT !.searchValue = << >>]))
       ELSE UNCHANGED << state, dom >>
    /\ UNCHANGED << loading, scraperVars, classifyVars, enrichVars >>

\* The user picks another sort order.
SortChange(value) ==
    /\ Quiescent
    /\ value # state.filters.sort
    /\ SetPage(Render([state EXCEPT !.filters.sort = value], dom))
    /\ UNCHANGED << loading, scraperVars, classifyVars, enrichVars >>

\* The user picks another category.
CategoryChange(value) ==
    /\ Quiescent
    /\ value # state.filters.category
    /\ SetPage(Render([state EXCEPT !.filters.category = value], dom))
    /\ UNCHANGED << loading, scraperVars, classifyVars, enrichVars >>

\* A click handler of the clear button that resets and does not render.
ClearFiltersNoRender(st, d) ==
    [state |-> [st EXCEPT !.filters = DefaultFilters],
     dom |-> [SyncStatusCheckboxes(d, DEFAULT_STATUS_VALUES)
                 EXCEPT !.searchValue = << >>]]

\* A click handler of the clear button without the early return: it resets
\* and renders whatever the filters are.
ClearFiltersAlways(st, d) ==
    Render([st EXCEPT !.filters = DefaultFilters],
           [SyncStatusCheckboxes(d, DEFAULT_STATUS_VALUES)
               EXCEPT !.searchValue = << >>])

\* The click handler of the clear button.
ClearFilters(st, d) ==
    LET hasSearch == st.filters.search # << >>
        hasSort == st.filters.sort # "start-asc"
        hasCategory == st.filters.category # "all"
        hasStatusChange ==
            \/ Cardinality(st.filters.statuses) # Cardinality(DEFAULT_STATUS_VALUES)
            \/ \E value \in DEFAULT_STATUS_VALUES : value \notin st.filters.statuses
    IN  IF ~hasSearch /\ ~hasSort /\ ~hasStatusChange /\ ~hasCategory
        THEN [state |-> st, dom |-> d]
        ELSE Render([st EXCEPT !.filters = DefaultFilters],
                    [SyncStatusCheckboxes(d, DEFAULT_STATUS_VALUES)
                        EXCEPT !.searchValue = << >>])

\* The user clicks the clear button.
ClearFiltersClick ==
    /\ Quiescent
    /\ SetPage(ClearFilters(state, dom))
    /\ UNCHANGED << loading, scraperVars, classifyVars, enrichVars >>

PageNext ==
    \/ \E payload \in PagePayloads : LoadOk(payload)
    \/ LoadFail
    \/ \E value \in StatusValues : StatusChange(value)
    \/ \E text \in SearchInputSet : SearchInput(text)
    \/ SearchEscape
    \/ \E value \in SortValues : SortChange(value)
    \/ \E value \in CategoryValues : CategoryChange(value)
    \/ ClearFiltersClick

PageSpec == PageInit /\ [][PageNext]_vars

\* C12: the set of allowed statuses is never empty, and in every state in
\* which one status is left and its checkbox is checked, the handler of a
\* click on that checkbox returns with the set as it was and the checkbox
\* checked again.
Thm_C12_StatusesNeverEmpty ==
    /\ state.filters.statuses # {}
    /\ \A value \in StatusValues :
          (state.filters.statuses = { value } /\ dom.checked[value]) =>
              LET after == ToggleStatus(state, dom, value)
              IN  /\ after.state.filters.statuses = state.filters.statuses
                  /\ after.dom.checked[value]

Wit_C12_OneStatusLeft ==
    /\ state.filters.statuses = { "no-date" }
    /\ dom.checked = [value \in StatusValues |-> value = "no-date"]
    /\ loading = "loaded"
    /\ Len(state.events) = 3

\* --------------------------------------------------------- applyFilters
\* Filter states the user may have set before the payload arrives.
ApplyFilterSet ==
    { [search |-> search, sort |-> "start-asc", category |-> category,
       statuses |-> statuses] :
          search \in { << >>, << "a" >>, << "B" >> },
          category \in { "all", "meeting" },
          statuses \in { StatusValues, DEFAULT_STATUS_VALUES,
                         { "no-date", "coming-soon" } } }

\* loadEvents has assigned state.events and is about to call render(): the
\* filters are what the user made them, every render so far was one of no
\* events.
ApplyInit ==
    /\ \E payload \in PayloadSet, filters \in ApplyFilterSet :
          /\ state = [events |-> MapEnrich(payload, LoadInstant),
                      filtered |-> << >>, filters |-> filters]
          /\ dom = SyncStatusCheckboxes(
                       [checked |-> [value \in StatusValues |-> FALSE],
                        searchValue |-> filters.search, statusText |-> "no events",
                        statusError |-> FALSE, listHidden |-> TRUE],
                       filters.statuses)
    /\ loading = "enriched"
    /\ ScraperIdle
    /\ ClassifyIdle
    /\ EnrichIdle

\* The render() of loadEvents.
RenderAfterLoad ==
    /\ loading = "enriched"
    /\ SetPage(Render(state, dom))
    /\ loading' = "loaded"
    /\ UNCHANGED << scraperVars, classifyVars, enrichVars >>

ApplyNext == RenderAfterLoad \/ \E value \in SortValues : SortChange(value)

ApplySpec == ApplyInit /\ [][ApplyNext]_vars

\* The positions of state.events that pass the three filters.
Passing ==
    { i \in DOMAIN state.events :
          LET evt == state.events[i]
          IN  /\ \/ state.filters.search = << >>
                 \/ Includes(SearchText(evt), ToLowerCase(state.filters.search))
              /\ evt.statusCategory \in state.filters.statuses
              /\ state.filters.category \in { "all", evt.category } }

\* The passing events in the order of state.events.
Kept == Filter(state.events, Passing, 1)

\* The events of the sequence that start at the date (null: that have none).
StartingAt(evs, date) ==
    Filter(evs, { i \in DOMAIN evs : StartOf(evs[i]) = date }, 1)

Starts == { StartOf(state.events[i]) : i \in DOMAIN state.events }

\* C20: under start-asc the result holds the passing events, every dated
\* event before every later-dated one and before every event without date,
\* and the events of equal date, like those without date, in the order they
\* have in state.events.
Thm_C20_AscendingStable ==
    (loading = "loaded" /\ state.filters.sort = "start-asc") =>
        /\ Len(state.filtered) = Len(Kept)
        /\ \A date \in Starts :
              StartingAt(state.filtered, date) = StartingAt(Kept, date)
        /\ \A i, j \in DOMAIN state.filtered :
              i < j =>
                  LET a == StartOf(state.filtered[i])
                      b == StartOf(state.filtered[j])
                  IN  /\ a = NoValue => b = NoValue
                      /\ (a # NoValue /\ b # NoValue) => ValueOf(a) <= ValueOf(b)

Wit_C20_TieAndUndated ==
    /\ loading = "loaded"
    /\ state.filters.sort = "start-asc"
    /\ state.filters.statuses = StatusValues
    /\ Len(state.events) = 3
    /\ StartOf(state.events[1]) = NoValue
    /\ state.events[2].title = << "b" >>
    /\ state.events[3].title = << "a" >>
    /\ StartOf(state.events[2]) = StartOf(state.events[3])
    /\ state.filtered = << state.events[2], state.events[3], state.events[1] >>

\* C19: under start-desc the dated events of the result are in descending
\* order of date and every event without date comes after every dated one.
Orig_C19_DescendingUndatedLast ==
    (loading = "loaded" /\ state.filters.sort = "start-desc") =>
        \A i, j \in DOMAIN state.filtered :
            i < j =>
                LET a == StartOf(state.filtered[i])
                    b == StartOf(state.filtered[j])
                IN  /\ a = NoValue => b = NoValue
                    /\ (a # NoValue /\ b # NoValue) => ValueOf(a) >= ValueOf(b)

\* Each part with a blank in front.
RECURSIVE Spaced(_, _)
Spaced(parts, i) ==
    IF i > Len(parts) THEN << >>
    ELSE << " " >> \o parts[i] \o Spaced(parts, i + 1)

\* The query occurs in the text, upper and lower case taken for equal.
OccursIn(query, text) ==
    \E k \in 1..(Len(text) + 1) :
        \A j \in 1..Len(query) :
            k + j - 1 <= Len(text) /\ LowerCase(text[k + j - 1]) = LowerCase(query[j])

\* The event passes the three filters of the current filter state.
Passes(evt) ==
    /\ \/ state.filters.search = << >>
       \/ OccursIn(state.filters.search,
                   evt.title \o << " " >> \o evt.location
                       \o Spaced(evt.dates, 1) \o Spaced(evt.timeInfo, 1))
    /\ evt.statusCategory \in state.filters.statuses
    /\ state.filters.category = "all" \/ state.filters.category = evt.category

\* C21: the result of applyFilters holds an event of state.events as often
\* as state.events holds it if the search text is empty or occurs, case
\* taken for equal, in its title, location, dates and time-info strings
\* joined by blanks, its statusCategory is an allowed status and the category
\* filter is all or its category; otherwise it does not hold it; and it holds
\* nothing else.
Thm_C21_ResultIsThePassingEvents ==
    loading = "loaded" =>
        /\ \A k \in DOMAIN state.filtered :
              \E i \in DOMAIN state.events : state.events[i] = state.filtered[k]
        /\ \A i \in DOMAIN state.events :
              LET evt == state.events[i]
              IN  Occurrences(state.filtered, evt) =
                      IF Passes(evt) THEN Occurrences(state.events, evt) ELSE 0

Wit_C21_SearchStatusAndCategory ==
    /\ loading = "loaded"
    /\ state.filters.search = << "B" >>
    /\ state.filters.category = "meeting"
    /\ state.filters.statuses = { "no-date", "coming-soon" }
    /\ Len(state.events) = 3
    /\ state.events[1].location = << "B" >>
    /\ state.events[2].title = << "d" >>
    /\ state.events[3].title = << "b" >>
    /\ state.filtered = << state.events[3] >>

\* C22: whenever no handler is running, state.filtered is what applyFilters
\* returns for the events and the filter state as they are: every handler
\* that changes a filter, and the load of the payload, renders before it
\* returns.
Thm_C22_FilteredIsCurrent ==
    Quiescent => state.filtered = ApplyFilters(state)

Wit_C22_RenderedAfterSeveralHandlers ==
    /\ loading = "loaded"
    /\ state.filters.sort = "title-asc"
    /\ state.filters.search = << "B" >>
    /\ state.filters.statuses = { "coming-soon", "upcoming", "past" }
    /\ Len(state.events) = 3
    /\ Len(state.filtered) = 2
    /\ state.filtered[1].title = << "b" >>

\* C23: once the load has failed, the status line shows the error message
\* with the error marking, whatever the user does afterwards.
Orig_C23_ErrorStays ==
    loading = "failed" => (dom.statusText = "error" /\ dom.statusError)

\* Worker w's detail fetch resolves in this step: it was fetching, it has now
\* moved on, and nothing was logged.
FetchSucceeds(w) ==
    /\ pc = "enrich"
    /\ wpc[w] = "fetching"
    /\ warned' = warned
    /\ (wpc'[w] # "fetching" \/ current'[w] # current[w])

\* C24: in the step in which a worker's detail fetch succeeds, each of
\* remarks, register, registerUrl and downloads of the claimed event becomes
\* the non-empty value the detail page produced for it, and a field for which
\* the page produced nothing keeps the value (or the absence) it had before
\* the fetch.
Thm_C24_SetOnlyWhenProduced ==
    [][\A w \in DOMAIN wpc :
          FetchSucceeds(w) =>
              LET index == targets[current[w] + 1]
              IN  \E detail \in DetailSet : \A k \in DetailProps :
                      Val(merged'[index], k) =
                          IF Produced(detail, k) = {}
                          THEN Val(merged[index], k)
                          ELSE << CHOOSE v \in Produced(detail, k) : TRUE >>]_vars

Wit_C24_KeptRemarksNewRegister ==
    \E p \in DOMAIN targets :
        LET i == targets[p]
        IN  /\ detailFetches[p] = 1
            /\ (p - 1) \notin warned
            /\ \A w \in DOMAIN wpc : wpc[w] = "fetching" => current[w] # p - 1
            /\ HasCached(i)
            /\ ~MissingIn(mergeResult[i], "remarks")
            /\ \A k \in {"remarks", "downloads", "registerUrl"} :
                   Val(merged[i], k) = Val(mergeResult[i], k)
            /\ merged[i].register = "r-text"
            /\ mergeResult[i].register # "r-text"

Thm_C26_WritesOwnSlotOnly ==
    /\ [](/\ \A p, q \in DOMAIN targets : p # q => targets[p] # targets[q]
          /\ \A v, w \in DOMAIN wpc :
                 (v # w /\ wpc[v] = "fetching" /\ wpc[w] = "fetching")
                     => targets[current[v] + 1] # targets[current[w] + 1])
    /\ [][page > PAGE_COUNT =>
             \A i \in DOMAIN merged :
                 merged'[i] # merged[i] =>
                     \E w \in DOMAIN wpc :
                         /\ FetchSucceeds(w)
                         /\ targets[current[w] + 1] = i
                         /\ detailFetches[current[w] + 1] = 1
                         /\ \A v \in DOMAIN wpc :
                                (v # w /\ wpc[v] = "fetching")
                                    => targets[current[v] + 1] # i]_vars

Wit_C26_TwoInFlightOneWritten ==
    /\ pc = "enrich"
    /\ Len(wpc) = 2
    /\ wpc[1] = "fetching" /\ wpc[2] = "fetching"
    /\ current[1] > current[2]
    /\ \E i \in DOMAIN merged :
           /\ merged[i] # mergeResult[i]
           /\ i # targets[current[1] + 1]
           /\ i # targets[current[2] + 1]

\* C27 as stated: an event whose cached record holds complete detail data is
\* never fetched, and the record written for it holds complete detail data.
Orig_C27_CompleteStaysComplete ==
    \A i \in DOMAIN merged :
        (HasCached(i) /\ CompleteDetail(CachedOf(i))) =>
            /\ ~Fetched(i)
            /\ writes = 1 => CompleteDetail(file.events[i])

\* ------------------------------------------------------- successive runs
\* The program run again and again over the same list, each run reading the
\* file the run before wrote.  A run is one step here: what happens inside a
\* run is the subject of Spec.
MaxRuns == 3
MaxList == 2

\* What collectEvents hands to enrichWithDetails, the same in every run: the
\* rows of the list pages reduced to the first row of each key.
ListSet ==
    { AddRows([seen |-> {}, aggregated |-> << >>], rows, 1).aggregated :
        rows \in UNION { [1..n -> RowSet] : n \in 0..MaxList } }

\* How the detail fetch of one target ends: with a parsed page, or thrown.
OutcomeSet == { NoValue } \cup { Some(detail) : detail \in DetailSet }

\* The workers' effect on merged when all have ended: each target whose
\* fetch answered has the detail applied to its slot.
RECURSIVE ApplyOutcomes(_, _, _, _)
ApplyOutcomes(result, selected, outcomes, p) ==
    IF p > Len(selected) THEN result
    ELSE ApplyOutcomes(
             IF outcomes[p] = NoValue THEN result
             ELSE [result EXCEPT ![selected[p]] =
                       ApplyDetail(@, ValueOf(outcomes[p]))],
             selected, outcomes, p + 1)

RunsInit ==
    /\ file \in FileSet
    /\ freshEvents \in ListSet
    /\ envConcurrency = 0
    /\ envDelay = 0
    /\ pc = "list"
    /\ page = 1
    /\ seen = {}
    /\ aggregated = << >>
    /\ existingMap = EmptyMap
    /\ merged = << >>
    /\ targets = << >>
    /\ next = 0
    /\ wpc = << >>
    /\ current = << >>
    /\ exitCode = 0
    /\ firstSeen = << >>
    /\ duplicates = 0
    /\ mergeResult = << >>
    /\ detailFetches = << >>
    /\ warned = {}
    /\ writes = 0
    /\ reads = 0
    /\ storedComplete = {}
    /\ unkeyed = 0
    /\ FrontIdle

\* One run from start to the written payload: the cache is read, the list is
\* merged with it, every target is fetched once, and the result is written.
RunCompletes ==
    /\ writes < MaxRuns
    /\ LET map == LoadExistingMap(file)
           result == MergeAll(freshEvents, map)
           selected == SelectTargets(result, map, 1)
       IN  \E outcomes \in [1..Len(selected) -> OutcomeSet] :
               LET final == ApplyOutcomes(result, selected, outcomes, 1)
               IN  /\ existingMap' = map
                   /\ mergeResult' = result
                   /\ targets' = selected
                   /\ detailFetches' = [p \in 1..Len(selected) |-> 1]
                   /\ warned' = { p - 1 : p \in { q \in DOMAIN selected :
                                                      outcomes[q] = NoValue } }
                   /\ merged' = final
                   /\ file' = FileOf(final)
                   /\ storedComplete' = storedComplete \cup
                          { IdentityKey(freshEvents[i]) :
                              i \in { j \in DOMAIN final : CompleteDetail(final[j]) } }
    /\ reads' = reads + 1
    /\ writes' = writes + 1
    /\ exitCode' = 0
    /\ UNCHANGED << envConcurrency, envDelay, pc, page, seen, aggregated, next,
                    wpc, current, firstSeen, duplicates, freshEvents, unkeyed >>
    /\ UNCHANGED frontVars

\* One run ended by a list page that could not be fetched: nothing is read
\* or written.
RunAborts ==
    /\ exitCode' = 1
    /\ UNCHANGED << envConcurrency, envDelay, file, pc, page, seen, aggregated,
                    existingMap, merged, targets, next, wpc, current, firstSeen,
                    duplicates, freshEvents, mergeResult, detailFetches, warned,
                    writes, reads, storedComplete, unkeyed >>
    /\ UNCHANGED frontVars

RunsNext == RunCompletes \/ RunAborts

RunsSpec == RunsInit /\ [][RunsNext]_vars

\* C28 as stated: a run issues no detail fetch for an event for which an
\* earlier run wrote complete detail data.
Orig_C28_NoFetchOnceComplete ==
    [][writes' # writes =>
          \A p \in DOMAIN targets' :
              IdentityKey(freshEvents[targets'[p]]) \notin storedComplete]_vars

\* The event at index i is a fetch target.
TargetIndex(i) == \E p \in DOMAIN targets : targets[p] = i

\* C29: from the merge on, an event that is not a fetch target is its merge
\* result, in merged and in the written file, and every event has each
\* property other than remarks, register, registerUrl and downloads exactly
\* as the merge left it (present with the same value, or absent).
Thm_C29_OnlyDetailFieldsOfTargets ==
    /\ Len(merged) = Len(mergeResult)
    /\ \A i \in DOMAIN merged :
           /\ ~TargetIndex(i) =>
                 /\ merged[i] = mergeResult[i]
                 /\ writes = 1 => file.events[i] = mergeResult[i]
           /\ \A k \in (DOMAIN merged[i] \cup DOMAIN mergeResult[i]) \ DetailProps :
                  /\ Val(merged[i], k) = Val(mergeResult[i], k)
                  /\ writes = 1 => Val(file.events[i], k) = Val(mergeResult[i], k)

Wit_C29_TargetChangedOthersNot ==
    /\ writes = 1
    /\ \E i, j, k \in DOMAIN merged :
           /\ ~TargetIndex(i) /\ HasCached(i)
           /\ Truthy(freshEvents[i].detailUrl)
           /\ mergeResult[i] # freshEvents[i]
           /\ ~TargetIndex(k) /\ ~Truthy(freshEvents[k].detailUrl)
           /\ TargetIndex(j)
           /\ merged[j] # mergeResult[j]
           /\ merged[j].location = "hall"

\* The checkboxes of d show the allowed statuses of st.
Mirrors(st, d) ==
    \A value \in StatusValues : d.checked[value] <=> value \in st.filters.statuses

\* C30: between handlers every status checkbox is checked exactly when its
\* value is an allowed status, and the handlers of a click on any checkbox
\* and of a click on the clear button return with that still true, the
\* rejected removal of the last status included.
Thm_C30_CheckboxesMirrorStatuses ==
    /\ Mirrors(state, dom)
    /\ \A value \in StatusValues :
           LET after == ToggleStatus(state, dom, value)
           IN  /\ Mirrors(after.state, after.dom)
               /\ state.filters.statuses = { value } =>
                      (after.dom.checked[value] /\ after.state.filters.statuses = { value })
    /\ LET cleared == ClearFilters(state, dom)
       IN  Mirrors(cleared.state, cleared.dom)

Wit_C30_OnlyPastAfterToggles ==
    /\ loading = "failed"
    /\ state.filters.statuses = { "past" }
    /\ dom.checked = [value \in StatusValues |-> value = "past"]
    /\ state.filters.sort = "start-asc"
    /\ state.filters.category = "all"

\* C31: in every state the page can be in between handlers, the handler of a
\* click on the clear button returns with the filters at their defaults
\* (empty search, start-asc, all, {coming-soon, upcoming}); when the filters
\* are the defaults already it returns with the state and the document as
\* they were, nothing rendered; and a second click after the first changes
\* nothing more.
Thm_C31_ClearRestoresDefaults ==
    LET once == ClearFilters(state, dom)
        twice == ClearFilters(once.state, once.dom)
    IN  /\ once.state.filters =
               [search |-> << >>, sort |-> "start-asc", category |-> "all",
                statuses |-> { "coming-soon", "upcoming" }]
        /\ once.state.events = state.events
        /\ state.filters = DefaultFilters => once = [state |-> state, dom |-> dom]
        /\ twice = once

Wit_C31_AllFourFiltersSet ==
    /\ loading = "loaded"
    /\ state.filters.search = << "a" >>
    /\ state.filters.sort = "title-asc"
    /\ state.filters.category = "meeting"
    /\ state.filters.statuses = { "past", "upcoming" }
    /\ Len(state.events) = 3
    /\ ClearFilters(state, dom).state.filtered # state.filtered

\* The identity keys of a sequence of events.
Keys(evs) == { IdentityKey(evs[i]) : i \in DOMAIN evs }

\* The positions of a page's rows that the claim says are kept: the key is
\* non-empty, was not met in an earlier page and is on no earlier row of
\* this page.
KeptPositions(met, rows) ==
    { i \in DOMAIN rows :
          /\ Truthy(IdentityKey(rows[i]))
          /\ IdentityKey(rows[i]) \notin met
          /\ \A j \in 1..(i - 1) : IdentityKey(rows[j]) # IdentityKey(rows[i]) }

\* C32: seen is the set of keys of the aggregated events; no aggregated
\* event, and no written one, lacks both a detailUrl and a non-empty title;
\* every key met on a row appears on exactly one aggregated event and, once
\* the file is written, on exactly one written event; and a step of the page
\* loop appends to aggregated exactly the rows of the page in hand whose key
\* is non-empty and unseen, in row order, dropping the others.
Thm_C32_KeptIffKeyedAndUnseen ==
    /\ [](/\ seen = Keys(aggregated)
          /\ \A i \in DOMAIN aggregated :
                 Truthy(aggregated[i].detailUrl) \/ Truthy(aggregated[i].title)
          /\ \A key \in Keys(firstSeen) :
                 Cardinality({ i \in DOMAIN aggregated :
                                  IdentityKey(aggregated[i]) = key }) = 1
          /\ writes = 1 =>
                /\ Len(file.events) = Cardinality(Keys(firstSeen))
                /\ \A i \in DOMAIN file.events :
                       Truthy(file.events[i].detailUrl) \/ Truthy(file.events[i].title)
                /\ \A key \in Keys(firstSeen) :
                       Cardinality({ i \in DOMAIN file.events :
                                        IdentityKey(file.events[i]) = key }) = 1)
    /\ [][page' # page =>
             \E rows \in PageSet :
                 LET kept == KeptPositions(seen, rows)
                     n == Cardinality(kept)
                     old == Len(aggregated)
                 IN  /\ firstSeen' = FirstRows(firstSeen, rows, 1)
                     /\ page' <= PAGE_COUNT => unkeyed' = Unkeyed(rows)
                     /\ Len(aggregated') = old + n
                     /\ \A i \in 1..old : aggregated'[i] = aggregated[i]
                     /\ \E at \in [1..n -> kept] :
                            /\ \A a, b \in 1..n : a < b => at[a] < at[b]
                            /\ \A a \in 1..n : aggregated'[old + a] = rows[at[a]]
                     /\ Len(rows) = n + Unkeyed(rows)
                            + Cardinality({ i \in DOMAIN rows \ kept :
                                               Truthy(IdentityKey(rows[i])) })]_vars

Wit_C32_UnkeyedRowDropped ==
    /\ pc = "list"
    /\ page = 4
    /\ unkeyed = 1
    /\ duplicates = 0
    /\ Len(aggregated) = 2
    /\ seen = { "u1", "A" }

====
